---- MODULE Spec2Model ----
(***************************************************************************)
(* Commission Portal: the reconciliation core of src/app.py and            *)
(* src/bullhorn_api.py (field matcher, date parsing, commission rate        *)
(* inference, dedup key, ledger insert on upload and on sync).              *)
(*                                                                          *)
(* Text is a sequence of one-character strings, so that strip, lower,       *)
(* endswith, substring search, float parsing and f-string formatting are    *)
(* computed character by character.  Numbers are fixed point with four      *)
(* decimals (Scale units per 1.0): 336.96 is 3369600; a rate float has six  *)
(* (RateScale units per 1.0): 0.0975 is 97500.  The input domains hold no   *)
(* value that the program rounds exactly on a tie, where its binary float   *)
(* decides the direction.                                                   *)
(* Intermediate values are passed as operator arguments, one operator per   *)
(* stage of a computation.                                                  *)
(***************************************************************************)
EXTENDS Integers, Sequences, FiniteSets, TLC

\* fixed point: hundredths of a cent
Scale == 100 * 100

(***************************************************************************)
(* Text helpers (Python str methods)                                        *)
(***************************************************************************)
DigitChars == <<"0", "1", "2", "3", "4", "5", "6", "7", "8", "9">>

UpperChars == <<"A", "B", "C", "D", "E", "F", "G", "H", "I", "J", "K", "L", "M",
                "N", "O", "P", "Q", "R", "S", "T", "U", "V", "W", "X", "Y", "Z">>

LowerChars == <<"a", "b", "c", "d", "e", "f", "g", "h", "i", "j", "k", "l", "m",
                "n", "o", "p", "q", "r", "s", "t", "u", "v", "w", "x", "y", "z">>

IsDigit(c) == \E i \in 1..10 : DigitChars[i] = c

DigitVal(c) == (CHOOSE i \in 1..10 : DigitChars[i] = c) - 1

\* str.lower() on one character
LowerChar(c) ==
    IF \E i \in 1..26 : UpperChars[i] = c
    THEN LowerChars[CHOOSE i \in 1..26 : UpperChars[i] = c]
    ELSE c

\* str.lower()
Lower(s) == [i \in 1..Len(s) |-> LowerChar(s[i])]

RECURSIVE LStrip(_)
LStrip(s) == IF s # <<>> /\ Head(s) = " " THEN LStrip(Tail(s)) ELSE s

RECURSIVE RStrip(_)
RStrip(s) ==
    IF s # <<>> /\ s[Len(s)] = " " THEN RStrip(SubSeq(s, 1, Len(s) - 1)) ELSE s

\* str.strip()
Strip(s) == RStrip(LStrip(s))

\* str.rstrip('%'): removes every trailing percent sign
RECURSIVE RStripPct(_)
RStripPct(s) ==
    IF s # <<>> /\ s[Len(s)] = "%" THEN RStripPct(SubSeq(s, 1, Len(s) - 1)) ELSE s

\* str.endswith
EndsWith(s, suf) ==
    Len(s) >= Len(suf) /\ SubSeq(s, Len(s) - Len(suf) + 1, Len(s)) = suf

\* str.startswith
StartsWith(s, pre) == Len(s) >= Len(pre) /\ SubSeq(s, 1, Len(pre)) = pre

\* the `in` operator on two strings
Contains(s, sub) ==
    \E i \in 1..(Len(s) + 1) :
        i + Len(sub) - 1 <= Len(s) /\ SubSeq(s, i, i + Len(sub) - 1) = sub

RECURSIVE NatStr(_)
NatStr(n) ==
    IF n < 10 THEN <<DigitChars[n + 1]>>
    ELSE NatStr(n \div 10) \o <<DigitChars[(n % 10) + 1]>>

\* str(int) / f"{int}"
IntStr(n) == IF n < 0 THEN <<"-">> \o NatStr(-n) ELSE NatStr(n)

(***************************************************************************)
(* Number helpers                                                           *)
(***************************************************************************)
Abs(n) == IF n < 0 THEN -n ELSE n

\* quotient q with remainder r of a division by d, rounded to the nearest
\* integer, ties to even
RoundRem(q, r, d) ==
    IF 2 * r > d THEN q + 1
    ELSE IF 2 * r < d THEN q
    ELSE IF q % 2 = 0 THEN q ELSE q + 1

\* n / d rounded to the nearest integer (n >= 0, d > 0)
RoundDiv(n, d) == RoundRem(n \div d, n % d, d)

\* a count of cents as a fixed-point value with the given sign
Cents(neg, c) == IF neg THEN -(c * (Scale \div 100)) ELSE c * (Scale \div 100)

\* round(x, 2) of a fixed-point value
Round2(x) == Cents(x < 0, RoundDiv(Abs(x), Scale \div 100))

\* the cents of (A * 1000 + G) / 1000000, A and G the two partial products
MulCents(A, G) ==
    RoundRem((A \div 1000) + (((A % 1000) * 1000 + G) \div 1000000),
             ((A % 1000) * 1000 + G) % 1000000, 1000000)

\* round(a * b, 2) of two fixed-point values; the product is split so that
\* no intermediate exceeds 32 bits
MulRound2(a, b) ==
    Cents((a < 0) # (b < 0),
          MulCents((Abs(a) \div 1000) * Abs(b), (Abs(a) % 1000) * Abs(b)))

\* round(a * rf, 2) of a fixed-point value a >= 0 and a rate float rf >= 0 in
\* millionths: a * rf / 10^8 cents, both factors split at 10^4 so that no
\* intermediate exceeds 32 bits
MulRateCents(a1, a0, b1, b0) ==
    RoundRem(a1 * b1 + ((a1 * b0 + a0 * b1) \div Scale)
                + ((((a1 * b0 + a0 * b1) % Scale) * Scale + a0 * b0) \div (Scale * Scale)),
             (((a1 * b0 + a0 * b1) % Scale) * Scale + a0 * b0) % (Scale * Scale),
             Scale * Scale)

\* round(a * rf, 2) of a fixed-point value and a rate float
MulRate2(a, rf) ==
    Cents((a < 0) # (rf < 0),
          MulRateCents(Abs(a) \div Scale, Abs(a) % Scale, Abs(rf) \div Scale, Abs(rf) % Scale))

\* round(a / b, 2) of two fixed-point values (b > 0)
DivRound2(a, b) == Cents(a < 0, RoundDiv(Abs(a) * 100, b))

\* f"{x:.2f}"
Fixed2(x) ==
    LET c == RoundDiv(Abs(x), Scale \div 100)
    IN  (IF x < 0 THEN <<"-">> ELSE <<>>) \o NatStr(c \div 100) \o <<".">>
        \o <<DigitChars[((c % 100) \div 10) + 1], DigitChars[(c % 10) + 1]>>

(***************************************************************************)
(* float(s): optional surrounding blanks, optional sign, digits with an     *)
(* optional decimal point; any other text of the input domains raises       *)
(* ValueError (ok = FALSE).  The domains hold no exponent, "inf", "nan",    *)
(* digit separator or fifth decimal.                                        *)
(***************************************************************************)
RECURSIVE DigitsVal(_)
DigitsVal(s) ==
    IF s = <<>> THEN 0 ELSE DigitsVal(SubSeq(s, 1, Len(s) - 1)) * 10 + DigitVal(s[Len(s)])

AllDigits(s) == \A i \in 1..Len(s) : IsDigit(s[i])

\* position of the first decimal point, 0 when there is none
DotPos(s) == IF \E i \in 1..Len(s) : s[i] = "."
             THEN CHOOSE i \in 1..Len(s) : s[i] = "." /\ \A j \in 1..(i - 1) : s[j] # "."
             ELSE 0

Pad4(s) == SubSeq(s \o <<"0", "0", "0", "0">>, 1, 4)

ParseFloat(raw) ==
    LET t   == Strip(raw)
        neg == t # <<>> /\ Head(t) = "-"
        u   == IF t # <<>> /\ Head(t) \in {"-", "+"} THEN Tail(t) ELSE t
        p   == DotPos(u)
        ip  == IF p = 0 THEN u ELSE SubSeq(u, 1, p - 1)
        fp  == IF p = 0 THEN <<>> ELSE SubSeq(u, p + 1, Len(u))
        mag == DigitsVal(ip) * Scale + DigitsVal(Pad4(fp))
    IN  IF AllDigits(ip) /\ AllDigits(fp) /\ Len(ip) + Len(fp) > 0 /\ Len(fp) <= 4
        THEN [ok |-> TRUE, val |-> IF neg THEN -mag ELSE mag]
        ELSE [ok |-> FALSE, val |-> 0]

(***************************************************************************)
(* Text constants                                                           *)
(***************************************************************************)
T_enterprise == <<"e", "n", "t", "e", "r", "p", "r", "i", "s", "e">>
T_perm == <<"p", "e", "r", "m">>
T_contract == <<"c", "o", "n", "t", "r", "a", "c", "t">>
T_New == <<"N", "e", "w">>
T_Current == <<"C", "u", "r", "r", "e", "n", "t">>
T_Unknown == <<"U", "n", "k", "n", "o", "w", "n">>
T_Permanent == <<"P", "e", "r", "m", "a", "n", "e", "n", "t">>
T_Contract == <<"C", "o", "n", "t", "r", "a", "c", "t">>
T_Rate975 == <<"9", ".", "7", "5", "%">>
T_Rate1000 == <<"1", "0", ".", "0", "0", "%">>
T_internal == <<"i", "n", "t", "e", "r", "n", "a", "l">>

\* strftime('%B')
MonthNames == <<
    <<"J", "a", "n", "u", "a", "r", "y">>,
    <<"F", "e", "b", "r", "u", "a", "r", "y">>,
    <<"M", "a", "r", "c", "h">>,
    <<"A", "p", "r", "i", "l">>,
    <<"M", "a", "y">>,
    <<"J", "u", "n", "e">>,
    <<"J", "u", "l", "y">>,
    <<"A", "u", "g", "u", "s", "t">>,
    <<"S", "e", "p", "t", "e", "m", "b", "e", "r">>,
    <<"O", "c", "t", "o", "b", "e", "r">>,
    <<"N", "o", "v", "e", "m", "b", "e", "r">>,
    <<"D", "e", "c", "e", "m", "b", "e", "r">> >>

(***************************************************************************)
(* Cell values: what a spreadsheet cell, a JSON field or a Python variable  *)
(* can hold.  t = "none" is None, "nan" a pandas NaN, "num" a number (v in  *)
(* Scale units), "str" a string (s), "ts" a pandas Timestamp (v = days      *)
(* since 1970-01-01).                                                       *)
(***************************************************************************)
NoneV == [t |-> "none", v |-> 0, s |-> <<>>]
NaNV == [t |-> "nan", v |-> 0, s |-> <<>>]
Num(x) == [t |-> "num", v |-> x, s |-> <<>>]
Str(x) == [t |-> "str", v |-> 0, s |-> x]
Ts(d) == [t |-> "ts", v |-> d, s |-> <<>>]

\* bool(value)
Truthy(c) ==
    CASE c.t = "none" -> FALSE
      [] c.t = "nan"  -> TRUE
      [] c.t = "num"  -> c.v # 0
      [] c.t = "str"  -> c.s # <<>>
      [] OTHER        -> TRUE

\* repr of a float: shortest decimal that reads back as the same number
RECURSIVE TrimZeros(_)
TrimZeros(s) ==
    IF Len(s) > 1 /\ s[Len(s)] = "0" THEN TrimZeros(SubSeq(s, 1, Len(s) - 1)) ELSE s

FloatRepr(x) ==
    LET f == Abs(x) % Scale
    IN  (IF x < 0 THEN <<"-">> ELSE <<>>) \o NatStr(Abs(x) \div Scale) \o <<".">>
        \o TrimZeros(<<DigitChars[(f \div 1000) + 1], DigitChars[((f \div 100) % 10) + 1],
                       DigitChars[((f \div 10) % 10) + 1], DigitChars[(f % 10) + 1]>>)

\* str(value)
PyStr(c) ==
    CASE c.t = "str" -> c.s
      [] c.t = "num" -> FloatRepr(c.v)
      [] c.t = "nan" -> <<"n", "a", "n">>
      [] c.t = "none" -> <<"N", "o", "n", "e">>
      [] OTHER -> <<"T", "i", "m", "e", "s", "t", "a", "m", "p">>

\* pd.notna(value)
NotNa(c) == c.t \notin {"nan", "none"}

(***************************************************************************)
(* _infer_commission_rate (app.py)                                          *)
(***************************************************************************)
\* a rate float is held in millionths (RateScale units per 1.0), so that the
\* division by 100.0 of a value with four decimals is exact
RateScale == Scale * 100

\* a fixed-point value as a rate float
AsRate(x) == x * (RateScale \div Scale)

\* x / 100.0
Div100(x) == IF x < 0 THEN -(AsRate(Abs(x)) \div 100) ELSE AsRate(x) \div 100

\* variant: the percentage printed as it is, without the .2f format
RateStrUnformatted(rf) == FloatRepr((rf * 100) \div (RateScale \div Scale)) \o <<"%">>

\* f"{(rf*100):.2f}%"
RateStr(rf) == Fixed2((rf * 100) \div (RateScale \div Scale)) \o <<"%">>

\* lines 302-305: (status or "").lower(), "enterprise" in st
StatusRate(status) ==
    IF Contains(Lower(IF Truthy(status) THEN status.s ELSE <<>>), T_enterprise)
    THEN [str |-> T_Rate975, rf |-> 97500]
    ELSE [str |-> T_Rate1000, rf |-> 100000]

\* variant: the boundary 1.0 is divided by 100 as well
BareRateFromOne(pf) ==
    [ok |-> pf.ok, rf |-> IF pf.val >= Scale THEN Div100(pf.val) ELSE AsRate(pf.val)]

\* lines 296-298: a bare number
BareRate(pf) ==
    [ok |-> pf.ok, rf |-> IF pf.val > Scale THEN Div100(pf.val) ELSE AsRate(pf.val)]

\* lines 290-299 on s = str(provided_rate).strip(); ok = FALSE is the except
ProvidedRate(s) ==
    IF EndsWith(s, <<"%">>)
    THEN [ok |-> ParseFloat(RStripPct(s)).ok, rf |-> Div100(ParseFloat(RStripPct(s)).val)]
    ELSE BareRate(ParseFloat(s))

infer_commission_rate(status, gp, provided_rate) ==
    LET pr == ProvidedRate(Strip(PyStr(provided_rate)))
    IN  IF Truthy(provided_rate) /\ pr.ok
        THEN [str |-> RateStr(pr.rf), rf |-> pr.rf]
        ELSE StatusRate(status)

(***************************************************************************)
(* _dedupe_key (app.py).  placement_id 0 stands for None (both are falsy).  *)
(***************************************************************************)
Bar == <<"|">>

\* variant: the placement id is not looked at
dedupe_key_composite(rec, now_year) ==
    IntStr(IF rec.year # 0 THEN rec.year ELSE now_year) \o Bar
    \o (IF rec.month # <<>> THEN rec.month ELSE T_Unknown) \o Bar
    \o IntStr(IF rec.day # 0 THEN rec.day ELSE 1) \o Bar
    \o rec.employee_name \o Bar \o rec.client \o Bar \o rec.status
    \o Bar \o Fixed2(rec.gp)

\* variant: the day is left out of the composite key
dedupe_key_without_day(rec, now_year) ==
    IF rec.placement_id # 0
    THEN (IF StartsWith(Lower(rec.status), T_perm) THEN T_perm ELSE T_contract)
         \o <<":">> \o IntStr(rec.placement_id)
    ELSE IntStr(IF rec.year # 0 THEN rec.year ELSE now_year) \o Bar
         \o (IF rec.month # <<>> THEN rec.month ELSE T_Unknown) \o Bar
         \o rec.employee_name \o Bar \o rec.client \o Bar \o rec.status
         \o Bar \o Fixed2(rec.gp)

dedupe_key(rec, now_year) ==
    IF rec.placement_id # 0
    THEN (IF StartsWith(Lower(rec.status), T_perm) THEN T_perm ELSE T_contract)
         \o <<":">> \o IntStr(rec.placement_id)
    ELSE IntStr(IF rec.year # 0 THEN rec.year ELSE now_year) \o Bar
         \o (IF rec.month # <<>> THEN rec.month ELSE T_Unknown) \o Bar
         \o IntStr(IF rec.day # 0 THEN rec.day ELSE 1) \o Bar
         \o rec.employee_name \o Bar \o rec.client \o Bar \o rec.status
         \o Bar \o Fixed2(rec.gp)

(***************************************************************************)
(* Calendar                                                                 *)
(***************************************************************************)
NoDate == [y |-> 0, m |-> 0, d |-> 0]

\* the calendar date that lies z days after 1970-01-01 (z >= -719468)
CivilFromDays(z) ==
    LET era == (z + 719468) \div 146097
        doe == (z + 719468) % 146097
        yoe == (doe - doe \div 1460 + doe \div 36524 - doe \div 146096) \div 365
        doy == doe - (365 * yoe + yoe \div 4 - yoe \div 100)
        mp  == (5 * doy + 2) \div 153
    IN  [y |-> yoe + era * 400 + (IF mp < 10 THEN 0 ELSE 1),
         m |-> IF mp < 10 THEN mp + 3 ELSE mp - 9,
         d |-> doy - (153 * mp + 2) \div 5 + 1]

IsLeap(y) == (y % 4 = 0 /\ y % 100 # 0) \/ y % 400 = 0

DaysInMonth(y, m) ==
    IF m = 2 THEN (IF IsLeap(y) THEN 29 ELSE 28)
    ELSE IF m \in {4, 6, 9, 11} THEN 30 ELSE 31

\* pd.Timestamp('1899-12-30') as days since 1970-01-01
SerialEpoch == -25569

\* a strict YYYY-MM-DD date, NoDate when the text is not one
IsoDate(s) ==
    LET y == DigitsVal(SubSeq(s, 1, 4))
        m == DigitsVal(SubSeq(s, 6, 7))
        d == DigitsVal(SubSeq(s, 9, 10))
    IN  IF /\ Len(s) = 10 /\ s[5] = "-" /\ s[8] = "-"
           /\ AllDigits(SubSeq(s, 1, 4)) /\ AllDigits(SubSeq(s, 6, 7))
           /\ AllDigits(SubSeq(s, 9, 10))
           /\ y >= 1 /\ m \in 1..12 /\ d >= 1 /\ d <= DaysInMonth(y, m)
        THEN [y |-> y, m |-> m, d |-> d]
        ELSE NoDate

\* pd.to_datetime on a string, errors='coerce': an ISO date YYYY-MM-DD is
\* read, any other text of the input domain gives NaT (NoDate)
ParseIsoDate(raw) == IsoDate(Strip(raw))

\* pd.to_datetime on a number: nanoseconds since 1970-01-01
NanosDate(v) == IF v >= 0 THEN CivilFromDays(0) ELSE CivilFromDays(-1)

\* variant: a text that is no date gives the epoch instead of None
parse_date_text_as_epoch(value) ==
    IF value.t = "none" \/ (value.t = "str" /\ Strip(value.s) = <<>>) THEN NoDate
    ELSE IF value.t = "ts" THEN CivilFromDays(value.v)
    ELSE IF value.t = "num" /\ 20000 * Scale < value.v /\ value.v < 60000 * Scale
         THEN CivilFromDays(SerialEpoch + (value.v \div Scale))
    ELSE IF value.t = "num" THEN NanosDate(value.v)
    ELSE IF value.t = "str" /\ ParseIsoDate(value.s) # NoDate THEN ParseIsoDate(value.s)
    ELSE CivilFromDays(0)

\* _parse_date (app.py)
parse_date(value) ==
    IF value.t = "none" \/ (value.t = "str" /\ Strip(value.s) = <<>>) THEN NoDate
    ELSE IF value.t = "ts" THEN CivilFromDays(value.v)
    ELSE IF value.t = "num" /\ 20000 * Scale < value.v /\ value.v < 60000 * Scale
         THEN CivilFromDays(SerialEpoch + (value.v \div Scale))
    ELSE IF value.t = "num" THEN NanosDate(value.v)
    ELSE IF value.t = "str" THEN ParseIsoDate(value.s)
    ELSE NoDate

(***************************************************************************)
(* _first_match (app.py) and the header alias lists of upload_file          *)
(***************************************************************************)
CLIENT_COLS == <<<<"c", "l", "i", "e", "n", "t">>, <<"c", "l", "i", "e", "n", "t", " ", "n", "a", "m", "e">>, <<"c", "u", "s", "t", "o", "m", "e", "r">>, <<"c", "o", "m", "p", "a", "n", "y">>, <<"a", "c", "c", "o", "u", "n", "t">>>>

GP_COLS == <<<<"g", "p">>, <<"g", "r", "o", "s", "s", " ", "p", "r", "o", "f", "i", "t">>, <<"p", "r", "o", "f", "i", "t">>, <<"g", "p", " ", "a", "m", "o", "u", "n", "t">>>>

EMP_COLS == <<<<"e", "m", "p", "l", "o", "y", "e", "e">>, <<"e", "m", "p", "l", "o", "y", "e", "e", " ", "n", "a", "m", "e">>, <<"r", "e", "c", "r", "u", "i", "t", "e", "r">>, <<"s", "a", "l", "e", "s">>, <<"s", "a", "l", "e", "s", " ", "r", "e", "p">>,
              <<"o", "w", "n", "e", "r">>, <<"c", "o", "n", "s", "u", "l", "t", "a", "n", "t">>>>

HOURS_COLS == <<<<"h", "o", "u", "r", "s">>, <<"t", "o", "t", "a", "l", " ", "h", "o", "u", "r", "s">>, <<"h", "o", "u", "r", "s", " ", "w", "o", "r", "k", "e", "d">>>>

STATUS_COLS == <<<<"s", "t", "a", "t", "u", "s">>, <<"s", "a", "l", "e", "s", " ", "s", "t", "a", "t", "u", "s">>, <<"p", "l", "a", "c", "e", "m", "e", "n", "t", " ", "s", "t", "a", "t", "u", "s">>>>

RATE_COLS == <<<<"c", "o", "m", "m", "i", "s", "s", "i", "o", "n", " ", "r", "a", "t", "e">>, <<"r", "a", "t", "e">>, <<"c", "o", "m", "m", " ", "r", "a", "t", "e">>>>

DATE_COLS == <<<<"d", "a", "t", "e">>, <<"p", "l", "a", "c", "e", "m", "e", "n", "t", " ", "d", "a", "t", "e">>, <<"s", "t", "a", "r", "t", " ", "d", "a", "t", "e">>, <<"w", "e", " ", "d", "a", "t", "e">>, <<"w", "e", "e", "k", " ", "e", "n", "d", "i", "n", "g">>,
               <<"i", "n", "v", "o", "i", "c", "e", " ", "d", "a", "t", "e">>, <<"b", "i", "l", "l", " ", "d", "a", "t", "e">>>>

\* variant: the first alias the row has, whatever its value
RECURSIVE first_present(_, _)
first_present(row_map, candidates) ==
    IF candidates = <<>> THEN NoneV
    ELSE IF Head(candidates) \in DOMAIN row_map THEN row_map[Head(candidates)]
    ELSE first_present(row_map, Tail(candidates))

RECURSIVE first_match(_, _)
first_match(row_map, candidates) ==
    IF candidates = <<>> THEN NoneV
    ELSE IF /\ Head(candidates) \in DOMAIN row_map
            /\ NotNa(row_map[Head(candidates)])
            /\ Strip(PyStr(row_map[Head(candidates)])) # <<>>
         THEN row_map[Head(candidates)]
         ELSE first_match(row_map, Tail(candidates))

\* pd.to_numeric(value, errors='coerce')
to_numeric(c) ==
    IF c.t = "num" THEN c
    ELSE IF c.t = "str" /\ ParseFloat(c.s).ok THEN Num(ParseFloat(c.s).val)
    ELSE NaNV

(***************************************************************************)
(* Roster (Employee table as seeded by init_db) and _employee_id_by_name    *)
(***************************************************************************)
N_PamHenard == <<"P", "a", "m", " ", "H", "e", "n", "a", "r", "d">>
N_SarahJohnson == <<"S", "a", "r", "a", "h", " ", "J", "o", "h", "n", "s", "o", "n">>

Roster == << [id |-> 1, name |-> <<"A", "d", "m", "i", "n", "i", "s", "t", "r", "a", "t", "o", "r">>],
             [id |-> 2, name |-> N_PamHenard],
             [id |-> 3, name |-> N_SarahJohnson] >>

\* Employee.query.filter_by(name=name).first(); 0 stands for None
employee_id_by_name(name) ==
    IF \E i \in 1..Len(Roster) : Roster[i].name = name
    THEN Roster[CHOOSE i \in 1..Len(Roster) :
                    /\ Roster[i].name = name
                    /\ \A j \in 1..(i - 1) : Roster[j].name # name].id
    ELSE 0

(***************************************************************************)
(* The clock: datetime.now().year, and the default start_date of a sync     *)
(***************************************************************************)
\* every call of a behaviour runs within the same calendar year; a row without
\* a date takes this year (line 497), so two uploads on either side of a new
\* year are outside what is checked here
CurrentYear == 2025

(***************************************************************************)
(* upload_file, lines 471-536: from one spreadsheet row to a candidate      *)
(* CommissionData object.  accept = FALSE is a skipped row.                 *)
(***************************************************************************)
\* lines 471-472 and 485: headers stripped and lower-cased, row as a mapping
RowMap(cols, cells) ==
    [k \in {Lower(Strip(cols[i])) : i \in 1..Len(cols)} |->
        cells[CHOOSE i \in 1..Len(cols) : Lower(Strip(cols[i])) = k]]

\* x if value is not None else None
NumericOrNone(value) == IF value.t # "none" THEN to_numeric(value) ELSE NoneV

\* variant: only a cell that holds a number counts, a numeric text does not
EffectiveHoursNumbersOnly(hours_val) ==
    IF hours_val.t = "num" /\ hours_val.v > 0 THEN hours_val.v ELSE 40 * Scale

\* lines 506-508
EffectiveHours(hours_val) ==
    LET hours == NumericOrNone(hours_val)
    IN  IF hours.t # "num" \/ hours.v <= 0 THEN 40 * Scale ELSE hours.v

\* lines 505-537: the guard, the CommissionData object, its key and employee id
UploadRec(client, employee_name, status_val, gp, hours, rate, dt, now_year) ==
    LET rec == [employee_name   |-> PyStr(employee_name),
                client          |-> PyStr(client),
                status          |-> IF Truthy(status_val) THEN PyStr(status_val) ELSE T_New,
                gp              |-> gp.v,
                hourly_gp       |-> DivRound2(gp.v, hours),
                commission_rate |-> rate.str,
                commission      |-> MulRate2(gp.v, rate.rf),
                month           |-> IF dt = NoDate THEN T_Current ELSE MonthNames[dt.m],
                day             |-> IF dt = NoDate THEN 1 ELSE dt.d,
                year            |-> IF dt = NoDate THEN now_year ELSE dt.y,
                placement_id    |-> 0]
    IN  IF Truthy(client) /\ Truthy(employee_name) /\ gp.t = "num"
        THEN [accept |-> TRUE,
              row |-> [rec EXCEPT !.placement_id = <<>>]
                      @@ [unique_key  |-> dedupe_key(rec, now_year),
                          employee_id |-> employee_id_by_name(rec.employee_name)]]
        ELSE [accept |-> FALSE, row |-> <<>>]

\* lines 493-511: date, gross profit, hours and rate from the matched cells
UploadParsed(client, gp_val, employee_name, hours_val, status_val, provided_rate, date_val, now_year) ==
    UploadRec(client, employee_name, status_val, NumericOrNone(gp_val),
              EffectiveHours(hours_val),
              infer_commission_rate(status_val, NumericOrNone(gp_val), provided_rate),
              parse_date(date_val), now_year)

\* lines 486-493: the seven header matches
UploadFact(row_map, now_year) ==
    UploadParsed(first_match(row_map, CLIENT_COLS), first_match(row_map, GP_COLS),
                 first_match(row_map, EMP_COLS), first_match(row_map, HOURS_COLS),
                 first_match(row_map, STATUS_COLS), first_match(row_map, RATE_COLS),
                 first_match(row_map, DATE_COLS), now_year)

(***************************************************************************)
(* bullhorn_api.py: BullhornAPI.format_placement_data.  A placement is a    *)
(* record; id 0 and dateBegin 0 stand for a missing (falsy) value, and      *)
(* dateBegin holds ms / 1000, the argument of datetime.fromtimestamp.       *)
(***************************************************************************)
\* _dt_from_ms; -1 stands for a value datetime.fromtimestamp rejects (a text,
\* a number beyond the year 9999), which the except at line 185 turns to None
dt_from_ms(ms) == IF ms = 0 \/ ms = -1 THEN NoDate ELSE CivilFromDays(ms \div 86400)

\* variant: the marker is compared as it is written
PlacementSkippedExactCase(p) ==
    \/ p.correlatedCustomText2 = T_internal
    \/ (p.customText38 = <<>> /\ p.customText34 = <<>>)

\* variant: the commission is left at 0 for the sync to fill in
PlacementFactWithoutCommission(p, now_year) ==
    [employee_name   |-> IF p.customText38 # <<>> THEN p.customText38
                         ELSE p.customText34,
     client          |-> p.clientName,
     status          |-> T_Permanent,
     gp              |-> p.flatFee,
     hourly_gp       |-> 0,
     commission_rate |-> T_Rate1000,
     commission      |-> 0,
     month           |-> IF dt_from_ms(p.dateBegin) # NoDate
                         THEN MonthNames[dt_from_ms(p.dateBegin).m] ELSE <<"U", "n", "k", "n", "o", "w", "n">>,
     day             |-> IF dt_from_ms(p.dateBegin) # NoDate
                         THEN dt_from_ms(p.dateBegin).d ELSE 1,
     year            |-> IF dt_from_ms(p.dateBegin) # NoDate
                         THEN dt_from_ms(p.dateBegin).y ELSE now_year,
     placement_id    |-> p.id]

PlacementSkipped(p) ==
    \/ Lower(p.correlatedCustomText2) = T_internal
    \/ (p.customText38 = <<>> /\ p.customText34 = <<>>)

PlacementFact(p, now_year) ==
    LET date_begin == dt_from_ms(p.dateBegin)
    IN  [employee_name   |-> IF p.customText38 # <<>> THEN p.customText38
                             ELSE p.customText34,
         client          |-> p.clientName,
         status          |-> T_Permanent,
         gp              |-> p.flatFee,
         hourly_gp       |-> 0,
         commission_rate |-> T_Rate1000,
         commission      |-> MulRound2(p.flatFee, 1000),
         month           |-> IF date_begin # NoDate THEN MonthNames[date_begin.m]
                             ELSE T_Unknown,
         day             |-> IF date_begin # NoDate THEN date_begin.d ELSE 1,
         year            |-> IF date_begin # NoDate THEN date_begin.y ELSE now_year,
         placement_id    |-> p.id]

RECURSIVE format_placement_data(_, _)
format_placement_data(placements, now_year) ==
    IF placements = <<>> THEN <<>>
    ELSE (IF PlacementSkipped(Head(placements)) THEN <<>>
          ELSE <<PlacementFact(Head(placements), now_year)>>)
         \o format_placement_data(Tail(placements), now_year)

(***************************************************************************)
(* bullhorn_api.py: BackOfficeAPI.get_commission_rows_from_timesheets,      *)
(* the per-entry accumulation (lines 410-466) and the conversion of the     *)
(* groups (lines 484-504).  Missing texts are <<>>, missing values NoneV.   *)
(***************************************************************************)
\* a or b
OrV(a, b) == IF Truthy(a) THEN a ELSE b

OrT(a, b) == IF a # <<>> THEN a ELSE b

\* variant: a value that is no number counts as 0
ToFloatOrZero(c) ==
    IF c.t = "num" THEN [ok |-> TRUE, val |-> c.v]
    ELSE IF c.t = "str" /\ ParseFloat(c.s).ok THEN ParseFloat(c.s)
    ELSE [ok |-> TRUE, val |-> 0]

\* float(value): ok = FALSE is a ValueError / TypeError
ToFloat(c) ==
    IF c.t = "num" THEN [ok |-> TRUE, val |-> c.v]
    ELSE IF c.t = "str" THEN ParseFloat(c.s)
    ELSE [ok |-> FALSE, val |-> 0]

\* lines 413-426: the entry's date, NoDate when the entry is to be skipped
EntryDate(e) ==
    LET date_worked == OrV(e.dateWorked, e.workDate)
    IN  IF ~Truthy(date_worked) THEN NoDate
        ELSE IF date_worked.t = "str"
             THEN IsoDate(SubSeq(date_worked.s, 1,
                                 IF Len(date_worked.s) < 10 THEN Len(date_worked.s) ELSE 10))
        ELSE IF date_worked.t = "ts" THEN CivilFromDays(date_worked.v)
        ELSE NoDate

\* lines 428-446: the parsed entry; ok = FALSE when the entry is skipped
EntryParsed(e) ==
    LET dt       == EntryDate(e)
        hours    == ToFloat(OrV(OrV(e.hours, e.quantity), Num(0)))
        bill_amt == ToFloat(OrV(OrV(e.billAmount, e.bill), Num(0)))
        pay_amt  == ToFloat(OrV(OrV(e.payAmount, e.pay), Num(0)))
        employment_type == OrT(e.placement.employmentType, T_Contract)
        client_name == OrT(e.placement.clientName, e.clientName)
        primary_employee ==
            OrT(OrT(e.placement.correlatedCustomText38, e.placement.correlatedCustomText34),
                e.ownerName)
        month_label == IF dt = NoDate THEN <<>> ELSE MonthNames[dt.m]
    IN  [ok |-> dt # NoDate /\ hours.ok /\ bill_amt.ok /\ pay_amt.ok /\ primary_employee # <<>>,
         key |-> primary_employee \o Bar \o client_name \o Bar \o month_label \o Bar
                 \o IntStr(dt.y) \o Bar \o employment_type,
         employee_name |-> primary_employee, client |-> client_name,
         employment_type |-> employment_type, month |-> month_label, year |-> dt.y,
         hours |-> hours.val, bill |-> bill_amt.val, pay |-> pay_amt.val]

\* lines 448-462 on the parsed entry x: the aggregate dict as a sequence of
\* groups in insertion order
AddEntry(aggregate, x) ==
    IF ~x.ok THEN aggregate
    ELSE IF \E i \in 1..Len(aggregate) : aggregate[i].key = x.key
    THEN [i \in 1..Len(aggregate) |->
            IF aggregate[i].key = x.key
            THEN [aggregate[i] EXCEPT !.total_hours = @ + x.hours,
                                      !.bill_sum = @ + x.bill,
                                      !.pay_sum = @ + x.pay]
            ELSE aggregate[i]]
    ELSE Append(aggregate,
                [key |-> x.key, employee_name |-> x.employee_name, client |-> x.client,
                 employment_type |-> x.employment_type, month |-> x.month, year |-> x.year,
                 total_hours |-> x.hours, bill_sum |-> x.bill, pay_sum |-> x.pay])

RECURSIVE Aggregate(_, _)
Aggregate(aggregate, entries) ==
    IF entries = <<>> THEN aggregate
    ELSE Aggregate(AddEntry(aggregate, EntryParsed(Head(entries))), Tail(entries))

\* lines 484-501
GroupFact(g) ==
    [employee_name   |-> g.employee_name,
     client          |-> g.client,
     status          |-> <<"C", "o", "n", "t", "r", "a", "c", "t", " ", "(">> \o g.employment_type \o <<")">>,
     gp              |-> Round2(g.bill_sum - g.pay_sum),
     hourly_gp       |-> IF g.total_hours > 0
                         THEN DivRound2(g.bill_sum - g.pay_sum, g.total_hours) ELSE 0,
     commission_rate |-> T_Rate1000,
     commission      |-> MulRound2(g.bill_sum - g.pay_sum, 1000),
     month           |-> g.month,
     day             |-> 1,
     year            |-> g.year,
     placement_id    |-> 0]

GroupFacts(aggregate) == [i \in 1..Len(aggregate) |-> GroupFact(aggregate[i])]

(***************************************************************************)
(* sync_bullhorn_data, lines 746-786: from one fetched record to the        *)
(* CommissionData row.  start_date is the default, 1 January of this year.  *)
(***************************************************************************)
\* lines 746-786: the fields of the record with their defaults, the key and
\* the row
SyncFact(rec, now_year) ==
    LET status     == IF rec.status # <<>> THEN rec.status ELSE T_New
        commission == IF rec.commission # 0 THEN rec.commission
                      ELSE MulRound2(rec.gp, 1000)
        month      == IF rec.month # <<>> THEN rec.month ELSE MonthNames[1]
        day        == IF rec.day # 0 THEN rec.day ELSE 1
        year       == IF rec.year # 0 THEN rec.year ELSE now_year
    IN  [employee_name   |-> rec.employee_name,
         client          |-> rec.client,
         status          |-> status,
         gp              |-> rec.gp,
         hourly_gp       |-> Round2(rec.hourly_gp),
         commission_rate |-> IF rec.commission_rate # <<>> THEN rec.commission_rate
                             ELSE T_Rate1000,
         commission      |-> Round2(commission),
         month           |-> month,
         day             |-> day,
         year            |-> year,
         placement_id    |-> IF rec.placement_id # 0 THEN IntStr(rec.placement_id) ELSE <<>>,
         unique_key      |-> dedupe_key([employee_name |-> rec.employee_name,
                                         client |-> rec.client, status |-> status,
                                         gp |-> rec.gp, month |-> month, day |-> day,
                                         year |-> year,
                                         placement_id |-> rec.placement_id], now_year),
         employee_id     |-> employee_id_by_name(rec.employee_name)]

(***************************************************************************)
(* Input domains: the spreadsheets a manager uploads and the answers of     *)
(* the two upstream services to a sync                                      *)
(***************************************************************************)
N_Ajax == <<"A", "j", "a", "x">>
N_TechCorp == <<"T", "e", "c", "h", "C", "o", "r", "p">>
T_Enterprise == <<"E", "n", "t", "e", "r", "p", "r", "i", "s", "e">>

\* the uploads of the ledger model:
\* 1 the scenario row of the specification: no hours, date or rate column
\* 2 the same fact with an hours column
\* 3 one key twice in one sheet, with and without an explicit rate, and an
\*   employee name in another letter case than the roster's
\* 4 alias headers, a row without client (skipped), a dated enterprise row,
\*   a row without numeric gross profit and one without employee (skipped)
Sheets ==
    << [cols |-> <<<<"C", "l", "i", "e", "n", "t">>, <<"G", "P">>, <<"E", "m", "p", "l", "o", "y", "e", "e">>, <<"S", "t", "a", "t", "u", "s">>>>,
        rows |-> << <<Str(N_Ajax), Str(<<"3", "3", "6", ".", "9", "6">>), Str(N_PamHenard), Str(T_New)>> >>],
       [cols |-> <<<<"C", "l", "i", "e", "n", "t">>, <<"G", "P">>, <<"E", "m", "p", "l", "o", "y", "e", "e">>, <<"S", "t", "a", "t", "u", "s">>, <<"H", "o", "u", "r", "s">>>>,
        rows |-> << <<Str(N_Ajax), Num(3369600), Str(N_PamHenard), Str(T_New),
                      Num(20 * Scale)>> >>],
       [cols |-> <<<<"C", "l", "i", "e", "n", "t">>, <<"G", "P">>, <<"E", "m", "p", "l", "o", "y", "e", "e">>, <<"S", "t", "a", "t", "u", "s">>, <<"R", "a", "t", "e">>>>,
        rows |-> << <<Str(N_Ajax), Num(3369600), Str(<<"p", "a", "m", " ", "h", "e", "n", "a", "r", "d">>), Str(T_New),
                      Str(<<"9", ".", "7", "5", "%">>)>>,
                    <<Str(N_Ajax), Num(3369600), Str(<<"p", "a", "m", " ", "h", "e", "n", "a", "r", "d">>), Str(T_New), NaNV>> >>],
       [cols |-> <<<<" ", "C", "o", "m", "p", "a", "n", "y", " ">>, <<"G", "r", "o", "s", "s", " ", "P", "r", "o", "f", "i", "t">>, <<"R", "e", "c", "r", "u", "i", "t", "e", "r">>, <<"S", "t", "a", "t", "u", "s">>, <<"D", "a", "t", "e">>>>,
        rows |-> << <<NaNV, Num(100 * Scale), Str(N_SarahJohnson), Str(T_Enterprise),
                      Str(<<"2", "0", "2", "5", "-", "0", "8", "-", "0", "3">>)>>,
                    <<Str(N_TechCorp), Str(<<"1", "0", "0", ".", "0", "0">>), Str(N_SarahJohnson),
                      Str(<<"E", "n", "t", "e", "r", "p", "r", "i", "s", "e", " ", "D", "e", "a", "l">>), Num(45872 * Scale)>>,
                    <<Str(N_TechCorp), Str(<<"T", "O", "T", "A", "L">>), Str(N_SarahJohnson), NaNV, NaNV>>,
                    <<Str(N_TechCorp), Num(100 * Scale), Str(<<" ", " ">>), NaNV, NaNV>> >>] >>

Placement(id, dateBegin, fee, client, recruiter, sales, marker) ==
    [id |-> id, dateBegin |-> dateBegin, flatFee |-> fee, clientName |-> client,
     customText34 |-> recruiter, customText38 |-> sales, correlatedCustomText2 |-> marker]

Entry(date, hours, bill, pay, etype, client, sales) ==
    [dateWorked |-> date, workDate |-> NoneV, hours |-> hours, quantity |-> NoneV,
     billAmount |-> bill, bill |-> NoneV, payAmount |-> pay, pay |-> NoneV,
     placement |-> [employmentType |-> etype, clientName |-> client,
                    correlatedCustomText38 |-> sales, correlatedCustomText34 |-> <<>>],
     clientName |-> <<>>, ownerName |-> <<>>]

\* placement 101, begun on 2025-03-10 (day 20157 after 1970-01-01)
P101 == Placement(101, 20157 * 86400, 5000 * Scale, N_TechCorp, <<>>, N_SarahJohnson, <<>>)

\* the same placement after fee, date (2025-04-01), client and owner changed
P101b == Placement(101, 20179 * 86400, 6000 * Scale, N_Ajax, N_PamHenard, <<>>, <<>>)

\* an internal placement, one without employee, one without begin date
P102 == Placement(102, 0, 1200 * Scale, N_Ajax, N_PamHenard, <<>>, <<"I", "n", "t", "e", "r", "n", "a", "l">>)

P103 == Placement(103, 0, 1200 * Scale, N_Ajax, <<>>, <<>>, <<>>)

P104 == Placement(104, 0, 1200 * Scale, N_Ajax, N_PamHenard, <<>>, <<>>)

\* time entries: two of one group (the second with a timestamp text, a text
\* amount and no employment type) and one without a readable date
E1 == Entry(Str(<<"2", "0", "2", "5", "-", "0", "8", "-", "0", "4">>), Num(40 * Scale), Num(500 * Scale), Num(350 * Scale),
            T_Contract, N_Ajax, N_PamHenard)

E2 == Entry(Str(<<"2", "0", "2", "5", "-", "0", "8", "-", "1", "1", "T", "0", "9", ":", "0", "0", ":", "0", "0">>), Num(8 * Scale), Str(<<"1", "0", "0", ".", "0", "0">>), Num(70 * Scale),
            <<>>, N_Ajax, N_PamHenard)

E3 == Entry(Str(<<"n", "/", "a">>), Num(8 * Scale), Num(100 * Scale), Num(70 * Scale),
            T_Contract, N_Ajax, N_PamHenard)

\* the syncs of the ledger model.  ats / bbo: whether the fetch of that
\* source answered; a source that failed on its first request contributes the
\* empty list and nothing else: get_bullhorn_commission_data and
\* get_bbo_commission_data catch every exception and return [], so the
\* handlers of lines 719-721 and 731-738, which would add a warning, never run.
\* In the last one the back office answers and has no entries for the window
Syncs ==
    << [ats |-> TRUE, placements |-> <<P101>>, bbo |-> FALSE, entries |-> <<>>],
       [ats |-> TRUE, placements |-> <<P101b, P102, P103>>, bbo |-> TRUE,
        entries |-> <<E1>>],
       [ats |-> TRUE, placements |-> <<P104, P104>>, bbo |-> TRUE,
        entries |-> <<E1, E3, E2>>],
       [ats |-> FALSE, placements |-> <<>>, bbo |-> FALSE, entries |-> <<>>],
       [ats |-> TRUE, placements |-> <<P101>>, bbo |-> TRUE, entries |-> <<>>] >>

(***************************************************************************)
(* The ledger (table commission_data), the SQLite transaction of each       *)
(* request and the two routes /api/upload and /api/bullhorn-sync            *)
(***************************************************************************)
Workers == {"w1", "w2"}

\* calls made in one behaviour, and injected exceptions in one behaviour
MaxCalls == 3
MaxFaults == 1

VARIABLES
    ledger,        \* committed rows of commission_data
    unique_index,  \* whether commission_data.unique_key carries its UNIQUE index
    lock,          \* the request holding SQLite's write lock, or "none"
    req,           \* per worker: the request it is serving
    hist,          \* the finished calls with their responses, oldest first
    faults,        \* exceptions injected so far
    probe          \* arguments and result of a helper called on its own

vars == <<ledger, unique_index, lock, req, hist, faults, probe>>

\* init_db, lines 864-870: the sample rows of a freshly created database
SeedRow(id, emp, client, status, gp, hourly, commission, day, key, eid) ==
    [id |-> id, employee_name |-> emp, client |-> client, status |-> status, gp |-> gp,
     hourly_gp |-> hourly, commission_rate |-> T_Rate1000, commission |-> commission,
     month |-> MonthNames[8], day |-> day, year |-> CurrentYear, placement_id |-> <<>>,
     unique_key |-> key, employee_id |-> eid]

Seeds ==
    { SeedRow(1, N_PamHenard, <<"A", "j", "a", "x", " ", "B", "u", "i", "l", "d", "i", "n", "g", " ", "C", "o", "m", "p", "a", "n", "y">>, <<"C", "o", "n", "t", "r", "a", "c", "t", " ", "(", "C", "o", "n", "t", "r", "a", "c", "t", ")">>,
              3369600, 64800, 337000, 3, <<"s", "e", "e", "d", ":", "1">>, 0),
      SeedRow(2, N_PamHenard, <<"E", "v", "o", "l", "e", "n", "t">>, <<"C", "o", "n", "t", "r", "a", "c", "t", " ", "(", "T", "e", "m", "p", "o", "r", "a", "r", "y", ")">>,
              1178400, 29500, 117800, 3, <<"s", "e", "e", "d", ":", "2">>, 0),
      SeedRow(3, N_SarahJohnson, N_TechCorp, T_Permanent,
              4500000, 0, 450000, 5, <<"s", "e", "e", "d", ":", "3">>, 0) }

Keys(rows) == {r.unique_key : r \in rows}

\* the id SQLite gives to the next inserted row
NextId(rows) == IF rows = {} THEN 1
                ELSE 1 + (CHOOSE m \in {r.id : r \in rows} : \A r \in rows : r.id <= m)

\* all_records of a sync call (lines 709-738)
AllRecords(y, now_year) ==
    (IF y.ats THEN format_placement_data(y.placements, now_year) ELSE <<>>)
    \o (IF y.bbo THEN GroupFacts(Aggregate(<<>>, y.entries)) ELSE <<>>)

\* the candidate rows of one sync, in processing order
SyncRows(recs, now_year) ==
    [i \in 1..Len(recs) |-> [accept |-> TRUE, row |-> SyncFact(recs[i], now_year)]]

\* the candidate rows of every possible call, in processing order
UploadCandidates ==
    [k \in 1..Len(Sheets) |->
        [i \in 1..Len(Sheets[k].rows) |->
            UploadFact(RowMap(Sheets[k].cols, Sheets[k].rows[i]), CurrentYear)]]

SyncCandidates ==
    [k \in 1..Len(Syncs) |-> SyncRows(AllRecords(Syncs[k], CurrentYear), CurrentYear)]

\* the candidate rows of a call: kind and input number
Candidates(kind, inp) ==
    IF kind = "upload" THEN UploadCandidates[inp]
    ELSE IF kind = "sync" THEN SyncCandidates[inp]
    ELSE <<>>

Idle == [pc |-> "idle", kind |-> "none", inp |-> 0, i |-> 0,
         pending |-> <<>>, flushed |-> {}, active |-> TRUE, processed |-> 0,
         before |-> {}, hits |-> {}, errs |-> {}]

\* the candidate rows of the request a worker is serving
Cands(w) == Candidates(req[w].kind, req[w].inp)

InFlight == {w \in Workers : req[w].pc # "idle"}

CanBegin(w) == req[w].pc = "idle" /\ Len(hist) + Cardinality(InFlight) < MaxCalls

\* rows this request's connection reads: committed plus its own inserts
Visible(w) == ledger \cup req[w].flushed

\* the response and the record of a finished call
Finished(w, success, processed, total, error, added) ==
    [kind |-> req[w].kind, inp |-> req[w].inp,
     success |-> success, processed |-> processed, total_fetched |-> total,
     warnings |-> <<>>, error |-> error, before |-> req[w].before,
     added |-> added, after |-> ledger \cup added,
     hits |-> req[w].hits, errs |-> req[w].errs]

\* session.flush(): INSERT of the pending object.  FALSE = IntegrityError
FlushOk(w) ==
    req[w].pending = <<>> \/ ~unique_index
    \/ req[w].pending[1].unique_key \notin Keys(Visible(w))

FlushedRows(w) ==
    IF req[w].pending = <<>> THEN req[w].flushed
    ELSE req[w].flushed \cup {req[w].pending[1] @@ [id |-> NextId(Visible(w))]}

\* the write lock is free for this request
LockFree(w) == lock \in {"none", w}

Release(w) == IF lock = w THEN "none" ELSE lock

\* init_db: a database created by db.create_all() carries the UNIQUE index
\* and the sample rows; a table that predates the unique_key column gets the
\* column from _safe_add_column (lines 845-848), without an index
Init ==
    /\ unique_index \in BOOLEAN
    /\ ledger = IF unique_index THEN Seeds ELSE {}
    /\ lock = "none"
    /\ req = [w \in Workers |-> Idle]
    /\ hist = <<>>
    /\ faults = 0
    /\ probe = <<>>

\* variant: the error response without the rollback; what the session had
\* flushed stays in the table
FailWithoutRollback(w, error) ==
    /\ ledger' = ledger \cup req[w].flushed
    /\ lock' = Release(w)
    /\ req' = [req EXCEPT ![w] = Idle]
    /\ hist' = Append(hist, Finished(w, FALSE, -1, -1, error, req[w].flushed))
    /\ UNCHANGED <<unique_index, probe>>

\* db.session.rollback() and the error response (upload 546-548, sync 806-808)
Fail(w, error) ==
    /\ lock' = Release(w)
    /\ req' = [req EXCEPT ![w] = Idle]
    /\ hist' = Append(hist, Finished(w, FALSE, -1, -1, error, {}))
    /\ UNCHANGED <<ledger, unique_index, probe>>

\* db.session.commit() and the success response (upload 543-544, sync 793-804)
Commit(w, total) ==
    /\ ledger' = ledger \cup FlushedRows(w)
    /\ lock' = Release(w)
    /\ req' = [req EXCEPT ![w] = Idle]
    /\ hist' = Append(hist, Finished(w, TRUE, req[w].processed, total, "none",
                                     FlushedRows(w)))
    /\ UNCHANGED <<unique_index, probe>>

\* variant: the object is added even when the lookup found its key
LookedButAdded(r, row, flushed, hit) ==
    [r EXCEPT !.i = @ + 1, !.flushed = flushed, !.pending = <<row>>,
              !.hits = IF hit THEN @ \cup {row} ELSE @, !.processed = @ + 1]

\* variant: a fact whose key exists is counted as processed too
LookedCountsHits(r, row, flushed, hit) ==
    IF hit
    THEN [r EXCEPT !.i = @ + 1, !.flushed = flushed, !.pending = <<>>,
                   !.hits = @ \cup {row}, !.processed = @ + 1]
    ELSE [r EXCEPT !.i = @ + 1, !.flushed = flushed, !.pending = <<row>>,
                   !.processed = @ + 1]

\* the request after the lookup found the key (hit) or added the row
Looked(r, row, flushed, hit) ==
    IF hit
    THEN [r EXCEPT !.i = @ + 1, !.flushed = flushed, !.pending = <<>>,
                   !.hits = @ \cup {row}]
    ELSE [r EXCEPT !.i = @ + 1, !.flushed = flushed, !.pending = <<row>>,
                   !.processed = @ + 1]

\* variant: the lookup result is ignored (no `if not exists`)
LookupThenAdd(w, row) ==
    /\ lock' = IF FlushedRows(w) # {} THEN w ELSE lock
    /\ req' = [req EXCEPT ![w] = Looked(@, row, FlushedRows(w), FALSE)]
    /\ UNCHANGED <<ledger, unique_index, hist, probe>>

\* lines 538-541 / 769-788: autoflush, lookup by key, add when absent
LookupAndAdd(w, row) ==
    /\ lock' = IF FlushedRows(w) # {} THEN w ELSE lock
    /\ req' = [req EXCEPT ![w] =
                 Looked(@, row, FlushedRows(w),
                        row.unique_key \in Keys(ledger \cup FlushedRows(w)))]
    /\ UNCHANGED <<ledger, unique_index, hist, probe>>

\* the record at hand is given up: its index is noted and the loop goes on
Skipped(r) == [r EXCEPT !.i = @ + 1, !.errs = @ \cup {r.i}]

\* the session after a failed flush: its transaction is rolled back and it
\* refuses every further statement until session.rollback()
Deactivated(r) == [r EXCEPT !.active = FALSE, !.flushed = {}, !.pending = <<>>]

(***************************************************************************)
(* /api/upload                                                              *)
(***************************************************************************)
BeginUpload(w, k) ==
    /\ CanBegin(w)
    /\ req' = [req EXCEPT ![w] = [Idle EXCEPT !.pc = "rows", !.kind = "upload",
                                              !.inp = k, !.i = 1, !.before = ledger]]
    /\ UNCHANGED <<ledger, unique_index, lock, hist, faults, probe>>

\* variant: a row that is not accepted ends the upload with an error
UploadRowStopsAtSkip(w, raise) ==
    /\ req[w].pc = "rows" /\ req[w].kind = "upload"
    /\ req[w].i <= Len(Cands(w))
    /\ IF raise
       THEN /\ faults < MaxFaults
            /\ faults' = faults + 1
            /\ Fail(w, "Processing error")
       ELSE /\ UNCHANGED faults
            /\ IF ~Cands(w)[req[w].i].accept
               THEN Fail(w, "Processing error")
               ELSE /\ req[w].pending # <<>> => LockFree(w)
                    /\ IF FlushOk(w) THEN LookupAndAdd(w, Cands(w)[req[w].i].row)
                       ELSE Fail(w, "Processing error")

\* one iteration of the loop at line 484; raise = an exception in it
UploadRow(w, raise) ==
    /\ req[w].pc = "rows" /\ req[w].kind = "upload"
    /\ req[w].i <= Len(Cands(w))
    /\ IF raise
       THEN /\ faults < MaxFaults
            /\ faults' = faults + 1
            /\ Fail(w, "Processing error")
       ELSE /\ UNCHANGED faults
            /\ IF ~Cands(w)[req[w].i].accept
               THEN /\ req' = [req EXCEPT ![w].i = @ + 1]
                    /\ UNCHANGED <<ledger, unique_index, lock, hist, probe>>
               ELSE /\ req[w].pending # <<>> => LockFree(w)
                    /\ IF FlushOk(w) THEN LookupAndAdd(w, Cands(w)[req[w].i].row)
                       ELSE Fail(w, "Processing error")

\* line 543, with the flush it implies; raise = the storage layer fails
UploadCommit(w, raise) ==
    /\ req[w].pc = "rows" /\ req[w].kind = "upload"
    /\ req[w].i > Len(Cands(w))
    /\ IF raise
       THEN /\ faults < MaxFaults
            /\ faults' = faults + 1
            /\ Fail(w, "Processing error")
       ELSE /\ UNCHANGED faults
            /\ req[w].pending # <<>> => LockFree(w)
            /\ IF FlushOk(w) THEN Commit(w, -1) ELSE Fail(w, "Processing error")

(***************************************************************************)
(* /api/bullhorn-sync                                                       *)
(***************************************************************************)
\* line 740 on the fetched records: the 'No data' answer, or the loop
SyncStarted(w, k, cands) ==
    IF cands = <<>>
    THEN /\ hist' = Append(hist,
                [kind |-> "sync", inp |-> k, success |-> FALSE,
                 processed |-> -1, total_fetched |-> -1, warnings |-> <<>>,
                 error |-> "No data retrieved from any APIs",
                 before |-> ledger, added |-> {}, after |-> ledger,
                 hits |-> {}, errs |-> {}])
         /\ UNCHANGED req
    ELSE /\ req' = [req EXCEPT ![w] = [Idle EXCEPT !.pc = "rows", !.kind = "sync",
                                                   !.inp = k, !.i = 1, !.before = ledger]]
         /\ UNCHANGED hist

BeginSync(w, k) ==
    /\ CanBegin(w)
    /\ SyncStarted(w, k, SyncCandidates[k])
    /\ UNCHANGED <<ledger, unique_index, lock, faults, probe>>

\* one iteration of the loop at line 744 with its own try/except (789-791);
\* raise = an exception in this record that is not a failed flush
SyncRow(w, raise) ==
    /\ req[w].pc = "rows" /\ req[w].kind = "sync"
    /\ req[w].i <= Len(Cands(w))
    /\ IF raise
       THEN /\ faults < MaxFaults
            /\ faults' = faults + 1
            /\ req' = [req EXCEPT ![w] = Skipped(@)]
            /\ UNCHANGED <<ledger, unique_index, lock, hist, probe>>
       ELSE /\ UNCHANGED faults
            /\ IF ~req[w].active
               THEN \* the session refuses every query after a failed flush
                    /\ req' = [req EXCEPT ![w] = Skipped(@)]
                    /\ UNCHANGED <<ledger, unique_index, lock, hist, probe>>
               ELSE /\ req[w].pending # <<>> => LockFree(w)
                    /\ IF FlushOk(w) THEN LookupAndAdd(w, Cands(w)[req[w].i].row)
                       ELSE \* IntegrityError inside the autoflush, caught at 789
                            /\ req' = [req EXCEPT ![w] = Deactivated(Skipped(@))]
                            /\ lock' = Release(w)
                            /\ UNCHANGED <<ledger, unique_index, hist, probe>>

\* line 793, with the flush it implies
SyncCommit(w, raise) ==
    /\ req[w].pc = "rows" /\ req[w].kind = "sync"
    /\ req[w].i > Len(Cands(w))
    /\ IF raise
       THEN /\ faults < MaxFaults
            /\ faults' = faults + 1
            /\ Fail(w, "Sync error")
       ELSE /\ UNCHANGED faults
            /\ (req[w].active /\ req[w].pending # <<>>) => LockFree(w)
            /\ IF req[w].active /\ FlushOk(w)
               THEN Commit(w, Len(Cands(w)))
               ELSE Fail(w, "Sync error")

\* SQLite gives up waiting for the write lock held by the other request:
\* OperationalError (database is locked) inside the flush
Busy(w) ==
    /\ req[w].pc = "rows" /\ req[w].active
    /\ req[w].pending # <<>> /\ ~LockFree(w)
    /\ IF req[w].kind = "upload" \/ req[w].i > Len(Cands(w))
       THEN Fail(w, IF req[w].kind = "upload" THEN "Processing error" ELSE "Sync error")
       ELSE /\ req' = [req EXCEPT ![w] = Deactivated(Skipped(@))]
            /\ UNCHANGED <<ledger, unique_index, lock, hist, probe>>
    /\ UNCHANGED faults

\* requests served by concurrent threads, no application-level lock
Next ==
    \/ \E w \in Workers, k \in 1..Len(Sheets) : BeginUpload(w, k)
    \/ \E w \in Workers, k \in 1..Len(Syncs) : BeginSync(w, k)
    \/ \E w \in Workers, raise \in BOOLEAN : UploadRow(w, raise)
    \/ \E w \in Workers, raise \in BOOLEAN : UploadCommit(w, raise)
    \/ \E w \in Workers, raise \in BOOLEAN : SyncRow(w, raise)
    \/ \E w \in Workers, raise \in BOOLEAN : SyncCommit(w, raise)
    \/ \E w \in Workers : Busy(w)

Spec == Init /\ [][Next]_vars

\* a request that arrives while no other is being served, taken by one thread
UploadAlone(k) == InFlight = {} /\ BeginUpload(CHOOSE w \in Workers : TRUE, k)

SyncAlone(k) == InFlight = {} /\ BeginSync(CHOOSE w \in Workers : TRUE, k)

\* requests served one after the other
NextSeq ==
    \/ \E k \in 1..Len(Sheets) : UploadAlone(k)
    \/ \E k \in 1..Len(Syncs) : SyncAlone(k)
    \/ \E w \in Workers, raise \in BOOLEAN : UploadRow(w, raise)
    \/ \E w \in Workers, raise \in BOOLEAN : UploadCommit(w, raise)
    \/ \E w \in Workers, raise \in BOOLEAN : SyncRow(w, raise)
    \/ \E w \in Workers, raise \in BOOLEAN : SyncCommit(w, raise)

SpecSeq == Init /\ [][NextSeq]_vars

(***************************************************************************)
(* The helpers called on their own: the ledger stays as init_db left it     *)
(* and probe holds the arguments, then the result                           *)
(***************************************************************************)
Quiet ==
    /\ unique_index = TRUE
    /\ ledger = Seeds
    /\ lock = "none"
    /\ req = [w \in Workers |-> Idle]
    /\ hist = <<>>
    /\ faults = 0

\* _infer_commission_rate: the status values and provided rates tried
RateStatuses ==
    { NoneV, Str(<<>>), Str(T_New), Str(T_Enterprise), Str(<<"E", "N", "T", "E", "R", "P", "R", "I", "S", "E", " ", "d", "e", "a", "l">>),
      Str(<<"M", "i", "d", "-", "e", "n", "t", "e", "r", "p", "r", "i", "s", "e">>), Str(T_Permanent) }

RateCells ==
    { NoneV, Num(0), Num(Scale), Num(97500), Num(975), Num(5000), Num(10100),
      Num(1000000), Str(<<"9", ".", "7", "5", "%">>), Str(<<"1", "0">>), Str(<<"1">>), Str(<<"1", ".", "0">>), Str(<<"9", ".", "7", "5">>),
      Str(<<"0", ".", "0", "9", "7", "5">>), Str(<<"a", "b", "c">>), Str(<<" ", "1", "2", ".", "5", "%", " ">>), Str(<<"0">>), Str(<<"0", "%">>),
      Str(<<"n", "/", "a", "%">>), Str(<<"-", "5", " ", "%", "%">>), Str(<<"1", "2", ".", "3", "4", "4", "%">>) }

InitRate ==
    /\ Quiet
    /\ probe \in [op : {"rate"}, status : RateStatuses, provided_rate : RateCells,
                  done : {FALSE}, str : {<<>>}, rf : {0}]

\* one call of _infer_commission_rate(status, gp, provided_rate)
InferRate ==
    /\ ~probe.done
    /\ probe' = [probe EXCEPT
                     !.done = TRUE,
                     !.str = infer_commission_rate(probe.status, NoneV,
                                                   probe.provided_rate).str,
                     !.rf = infer_commission_rate(probe.status, NoneV,
                                                  probe.provided_rate).rf]
    /\ UNCHANGED <<ledger, unique_index, lock, req, hist, faults>>

SpecRate == InitRate /\ [][InferRate]_vars

\* _dedupe_key on facts without placement id: the field values tried
KeyFacts ==
    [placement_id  : {0},
     year          : {2024, CurrentYear},
     month         : {MonthNames[8], T_Current},
     day           : {1, 3},
     employee_name : {<<"A">>, <<"A", "|", "B">>},
     client        : {<<"B", "|", "C">>, <<"C">>},
     status        : {T_New, T_Contract},
     gp            : {3369600, 3369610, 10, -10}]

InitKey ==
    /\ Quiet
    /\ probe \in [op : {"key"}, a : KeyFacts, b : KeyFacts, done : {FALSE},
                  key_a : {<<>>}, key_b : {<<>>}]

\* _dedupe_key called on two facts
KeyPair ==
    /\ ~probe.done
    /\ probe' = [probe EXCEPT !.done = TRUE,
                              !.key_a = dedupe_key(probe.a, CurrentYear),
                              !.key_b = dedupe_key(probe.b, CurrentYear)]
    /\ UNCHANGED <<ledger, unique_index, lock, req, hist, faults>>

SpecKey == InitKey /\ [][KeyPair]_vars

(***************************************************************************)
(* The producers called on their own: probe holds the operation, its        *)
(* argument and, once done, its result                                      *)
(***************************************************************************)
\* a row for _first_match with the columns client, customer and company; a
\* cell of type "missing" is a column the sheet does not have
MatchRow(c1, c2, c3) ==
    [k \in {<<"c", "l", "i", "e", "n", "t">>} \cup (IF c2.t = "missing" THEN {} ELSE {<<"c", "u", "s", "t", "o", "m", "e", "r">>})
                        \cup (IF c3.t = "missing" THEN {} ELSE {<<"c", "o", "m", "p", "a", "n", "y">>}) |->
        IF k = <<"c", "l", "i", "e", "n", "t">> THEN c1 ELSE IF k = <<"c", "u", "s", "t", "o", "m", "e", "r">> THEN c2 ELSE c3]

\* spreadsheet rows under the headers Client, GP, Employee, Hours, Status,
\* Rate, Date
RowCells ==
    {Str(N_Ajax), NaNV, Num(0)}
    \X {Str(<<"3", "3", "6", ".", "9", "6">>), Num(1000 * Scale), Num(-10 * Scale), Str(<<"a", "b", "c">>), NaNV, Num(0)}
    \X {Str(N_PamHenard), NaNV}
    \X {NaNV, Num(0), Str(<<"N", "/", "A">>), Num(-5 * Scale), Num(20 * Scale), Str(<<"2", "0">>)}
    \X {NaNV, Str(T_New), Str(T_Enterprise)}
    \X {NaNV, Str(<<"9", ".", "7", "5", "%">>), Str(<<"1", "2", ".", "3", "4", "4", "%">>), Str(<<"-", "5", "%">>), Num(0)}
    \X {NaNV, Num(45872 * Scale), Str(<<"2", "0", "2", "5", "-", "0", "8", "-", "0", "3">>), Str(<<"s", "o", "o", "n">>)}

\* placements: those of the ledger model, one with a recruiter and a sales
\* owner, one with the marker in capitals and one with an unreadable begin date
PlacementPool ==
    { P101, P101b, P102, P103, P104,
      Placement(105, 20157 * 86400, 1234560, N_Ajax, N_PamHenard, N_SarahJohnson,
                <<"E", "n", "t", "e", "r", "p", "r", "i", "s", "e">>),
      Placement(106, 20157 * 86400, 1200 * Scale, N_Ajax, N_PamHenard, N_SarahJohnson,
                <<"I", "N", "T", "E", "R", "N", "A", "L">>),
      Placement(107, -1, 1200 * Scale, N_Ajax, N_PamHenard, <<>>, <<>>) }

\* time entries: those of the ledger model; one hour billed at 29.774 and
\* paid at 21.322; an entry paid above its bill with no hours; one without
\* employee; one whose pay amount is no number; one of another month; and two
\* whose employee and client hold the separator of the group key
EntryPool ==
    { E1, E2, E3,
      Entry(Str(<<"2", "0", "2", "5", "-", "0", "8", "-", "0", "4">>), Num(Scale), Num(297740), Num(213220),
            T_Contract, N_TechCorp, N_SarahJohnson),
      Entry(Str(<<"2", "0", "2", "5", "-", "0", "8", "-", "2", "0">>), Num(0), Num(100 * Scale), Num(130 * Scale),
            <<"T", "e", "m", "p", "o", "r", "a", "r", "y">>, N_TechCorp, N_SarahJohnson),
      Entry(Str(<<"2", "0", "2", "5", "-", "0", "8", "-", "0", "4">>), Num(8 * Scale), Num(100 * Scale), Num(70 * Scale),
            T_Contract, N_Ajax, <<>>),
      Entry(Str(<<"2", "0", "2", "5", "-", "0", "8", "-", "0", "4">>), Num(8 * Scale), Num(100 * Scale), Str(<<"n", "/", "a">>),
            T_Contract, N_Ajax, N_PamHenard),
      Entry(Str(<<"2", "0", "2", "5", "-", "0", "9", "-", "0", "1">>), Num(8 * Scale), Num(100 * Scale), Num(70 * Scale),
            T_Contract, N_Ajax, N_PamHenard),
      Entry(Str(<<"2", "0", "2", "5", "-", "0", "8", "-", "0", "4">>), Num(40 * Scale), Num(500 * Scale), Num(350 * Scale),
            T_Contract, <<"B", "|", "C">>, <<"A">>),
      Entry(Str(<<"2", "0", "2", "5", "-", "0", "8", "-", "0", "4">>), Num(8 * Scale), Num(100 * Scale), Num(70 * Scale),
            T_Contract, <<"C">>, <<"A", "|", "B">>) }

InitFact ==
    /\ Quiet
    /\ \/ \E c1, c2, c3 \in {[t |-> "missing", v |-> 0, s |-> <<>>], NoneV, NaNV,
                              Str(<<>>), Str(<<" ", " ">>), Str(N_Ajax), Str(<<" ", "T", "e", "c", "h", "C", "o", "r", "p", " ">>),
                              Num(0)} :
            /\ c1.t # "missing"
            /\ probe = [op |-> "match", arg |-> MatchRow(c1, c2, c3), done |-> FALSE,
                        out |-> <<>>]
       \/ probe \in [op : {"date"}, done : {FALSE}, out : {<<>>},
                     arg : {NoneV, Str(<<>>), Str(<<" ", " ">>), Str(<<"2", "0", "2", "5", "-", "0", "8", "-", "0", "3">>), Str(<<"s", "o", "o", "n">>),
                            Ts(20157), Num(0), Num(19999 * Scale), Num(20000 * Scale),
                            Num(20001 * Scale), Num(44000 * Scale),
                            Num(44000 * Scale + 5000), Num(59999 * Scale),
                            Num(60000 * Scale)}]
       \/ probe \in [op : {"upload"}, done : {FALSE}, out : {<<>>}, arg : RowCells]
       \/ probe \in [op : {"placements"}, done : {FALSE}, out : {<<>>},
                     arg : UNION {[1..n -> PlacementPool] : n \in 0..2}]
       \/ probe \in [op : {"timesheets"}, done : {FALSE}, out : {<<>>},
                     arg : UNION {[1..n -> EntryPool] : n \in 1..3}]

\* the result of the operation on the argument
Done(out) ==
    /\ ~probe.done
    /\ probe' = [probe EXCEPT !.done = TRUE, !.out = out]
    /\ UNCHANGED <<ledger, unique_index, lock, req, hist, faults>>

\* _first_match(row_map, CLIENT_COLS)
Match == probe.op = "match" /\ Done(first_match(probe.arg, CLIENT_COLS))

\* _parse_date(value)
ParseDate == probe.op = "date" /\ Done(parse_date(probe.arg))

\* one iteration of the loop of upload_file up to the finished object
UploadOne ==
    /\ probe.op = "upload"
    /\ Done(UploadFact(RowMap(<<<<"C", "l", "i", "e", "n", "t">>, <<"G", "P">>, <<"E", "m", "p", "l", "o", "y", "e", "e">>, <<"H", "o", "u", "r", "s">>, <<"S", "t", "a", "t", "u", "s">>, <<"R", "a", "t", "e">>,
                                <<"D", "a", "t", "e">>>>, probe.arg), CurrentYear))

\* format_placement_data(placements)
FormatPlacements ==
    probe.op = "placements" /\ Done(format_placement_data(probe.arg, CurrentYear))

\* the aggregation of get_commission_rows_from_timesheets on the entries of
\* one page
AggregateTimesheets ==
    probe.op = "timesheets" /\ Done(GroupFacts(Aggregate(<<>>, probe.arg)))

NextFact ==
    \/ Match
    \/ ParseDate
    \/ UploadOne
    \/ FormatPlacements
    \/ AggregateTimesheets

SpecFact == InitFact /\ [][NextFact]_vars

(***************************************************************************)
(* bullhorn_api.py: the paginated fetch of get_bbo_commission_data.  probe  *)
(* holds the locals of get_commission_rows_from_timesheets (page,           *)
(* aggregate), those of _get_with_fallback (the variant tried next,         *)
(* last_error) and, once the call has returned, its result.  api.ping()     *)
(* comes first and its outcome is ignored (lines 514-517).                  *)
(***************************************************************************)
\* list_time_entries: the endpoint variants tried in turn
EndpointVariants == 8

\* HTTP requests made by one fetch
MaxRequests == 10

\* the pages the upstream holds: the second has an entry without a readable
\* date, the third an entry of another month
UpstreamPages ==
    << <<E1>>, <<E3, E2>>,
       <<Entry(Str(<<"2", "0", "2", "5", "-", "0", "9", "-", "0", "1">>), Num(8 * Scale), Num(100 * Scale), Num(70 * Scale),
               T_Contract, N_Ajax, N_PamHenard)>> >>

\* the body of a 200 answer to a request for page: its entries and, unless
\* it is the last page, the continuation marker in the upstream's style: the
\* integer nextPage, the boolean hasMore, or the text "true".  page is a
\* number: the value True that the loop may hold is the number 1 to Python
\* and to an upstream that reads the parameter leniently
Payload(page, style) ==
    [entries |-> IF page \in 1..Len(UpstreamPages) THEN UpstreamPages[page] ELSE <<>>,
     next_page |-> IF page >= Len(UpstreamPages) THEN [t |-> "none", v |-> 0]
                   ELSE IF style = "int" THEN [t |-> "int", v |-> page + 1]
                   ELSE IF style = "bool" THEN [t |-> "bool", v |-> 1]
                   ELSE [t |-> "str", v |-> 0]]

\* lines 469-473: the page to request next, 0 to leave the loop.  A bool is
\* an int to isinstance, so the marker True is itself assigned to page
NextPage(next_page, page) ==
    IF next_page.t = "str" THEN page + 1
    ELSE IF next_page.t = "bool" THEN next_page.v
    ELSE IF next_page.t = "int" /\ (next_page.v = 1 \/ next_page.v > page)
         THEN next_page.v
    ELSE 0

InitFetch ==
    /\ Quiet
    /\ probe \in [op : {"fetch"}, style : {"int", "bool", "str"}, page : {1}, prev : {0},
                  variant : {1}, last_error : {"none"}, aggregate : {<<>>},
                  added : {<<>>}, requests : {0}, failed : {"none"}, done : {FALSE},
                  out : {<<>>}]

\* lines 484-507 and 519: the call returns rows; failed is the RuntimeError
\* that ended the loop, "none" when the loop ended by itself
Returned(p, failed, rows) ==
    [p EXCEPT !.done = TRUE, !.failed = failed, !.out = rows, !.requests = @ + 1]

\* lines 295-297 and 406-473: a variant answers 200; the entries of the page
\* are aggregated and the loop goes on with the next page or ends
GetOk ==
    /\ probe.op = "fetch" /\ ~probe.done /\ probe.requests < MaxRequests
    /\ probe' =
         IF Payload(probe.page, probe.style).entries = <<>>
         THEN Returned(probe, "none", GroupFacts(probe.aggregate))
         ELSE IF NextPage(Payload(probe.page, probe.style).next_page, probe.page) = 0
         THEN Returned([probe EXCEPT !.added = Append(@, probe.page)], "none",
                       GroupFacts(Aggregate(probe.aggregate,
                                            Payload(probe.page, probe.style).entries)))
         ELSE [probe EXCEPT
                 !.aggregate = Aggregate(@, Payload(probe.page, probe.style).entries),
                 !.added = Append(@, probe.page),
                 !.prev = probe.page,
                 !.page = NextPage(Payload(probe.page, probe.style).next_page, probe.page),
                 !.variant = 1, !.last_error = "none", !.requests = @ + 1]
    /\ UNCHANGED <<ledger, unique_index, lock, req, hist, faults>>

\* lines 298-336: a variant answers with an error status, times out or
\* cannot be reached; the next variant is tried.  After the last variant
\* the RuntimeError named after last_error is raised: "503" returns no rows
\* (lines 398-401), any other is raised again and caught at line 475, where
\* the rows of the pages aggregated so far are kept
GetFailed(status) ==
    /\ probe.op = "fetch" /\ ~probe.done /\ probe.requests < MaxRequests
    /\ probe' =
         IF probe.variant < EndpointVariants
         THEN [probe EXCEPT !.variant = @ + 1, !.last_error = status, !.requests = @ + 1]
         ELSE IF status = "503"
         THEN Returned([probe EXCEPT !.last_error = status], "503", <<>>)
         ELSE Returned([probe EXCEPT !.last_error = status],
                       IF status = "404" THEN "404"
                       ELSE IF status \in {"401", "403"} THEN "auth" ELSE "other",
                       GroupFacts(probe.aggregate))
    /\ UNCHANGED <<ledger, unique_index, lock, req, hist, faults>>

NextFetch ==
    \/ GetOk
    \/ \E status \in {"401", "403", "404", "503", "500", "timeout", "connection"} :
          GetFailed(status)

SpecFetch == InitFetch /\ [][NextFetch]_vars

(***************************************************************************)
(* Properties                                                               *)
(***************************************************************************)
\* a ledger row without its row id
Fact(r) == [f \in DOMAIN r \ {"id"} |-> r[f]]

WithKey(rows, key) == {r \in rows : r.unique_key = key}

\* the records of a finished call that reached the lookup, in order
Applied(h) ==
    {i \in 1..Len(Candidates(h.kind, h.inp)) :
        Candidates(h.kind, h.inp)[i].accept /\ i \notin h.errs}

AppliedRow(h, i) == Candidates(h.kind, h.inp)[i].row

\* the first fact of the call that carries the key
FirstWithKey(h, key) ==
    AppliedRow(h, CHOOSE i \in Applied(h) :
                    /\ AppliedRow(h, i).unique_key = key
                    /\ \A j \in Applied(h) :
                         AppliedRow(h, j).unique_key = key => i <= j)

\* calls i and i + 1 are two successful uploads of the same spreadsheet
SameUploadTwice(i) ==
    /\ i + 1 <= Len(hist)
    /\ hist[i].kind = "upload" /\ hist[i + 1].kind = "upload"
    /\ hist[i].inp = hist[i + 1].inp
    /\ hist[i].success /\ hist[i + 1].success

\* C1: in every reachable state no two ledger rows carry the same dedup key
C1_OneRowPerKey ==
    \A r1 \in ledger, r2 \in ledger : r1.unique_key = r2.unique_key => r1 = r2

C3_ReuploadIdempotent ==
    \A i \in 1..Len(hist) :
        SameUploadTwice(i) => hist[i + 1].after = hist[i].after

\* C3 case: a spreadsheet that added rows was uploaded a second time
C3_Witness ==
    \E i \in 1..Len(hist) :
        /\ SameUploadTwice(i)
        /\ hist[i].added # {}
        /\ hist[i].before # {}

AllApplied(h) ==
    \A i \in Applied(h) : AppliedRow(h, i).unique_key \in Keys(h.after)

\* the call changed nothing and reported no processed count
NoneApplied(h) == h.after = h.before /\ h.processed = -1

\* C5 as stated: every call applies all of its facts or none, and a call in
\* which some record met an error leaves the ledger as it was and reports no
\* processed count
C5_BatchAtomic ==
    \A i \in 1..Len(hist) :
        /\ (hist[i].success /\ AllApplied(hist[i]) /\ hist[i].errs = {})
              \/ NoneApplied(hist[i])
        /\ (hist[i].errs # {} \/ ~hist[i].success) => NoneApplied(hist[i])

\* C5 amended: an upload applies all of its facts or none; a failed call of
\* either kind (an error in an upload row, a failed flush or commit) leaves
\* the ledger as it was and reports no processed count; an error inside one
\* record of a sync gives up that record alone, and the sync commits the
\* other records and reports them as processed
C5_AtomicButForSkippedRecords ==
    \A i \in 1..Len(hist) :
        /\ ~hist[i].success => NoneApplied(hist[i]) /\ hist[i].added = {}
        /\ hist[i].success =>
              /\ AllApplied(hist[i])
              /\ hist[i].after = hist[i].before \cup hist[i].added
              /\ hist[i].processed = Cardinality(hist[i].added)
        /\ (hist[i].success /\ hist[i].kind = "upload") => hist[i].errs = {}

\* C5 case: a sync gave up one record and committed another
C5_Witness ==
    \E i \in 1..Len(hist) :
        /\ hist[i].kind = "sync" /\ hist[i].success
        /\ hist[i].errs # {} /\ hist[i].added # {}

\* C6: no two calls both commit a row with the same dedup key
C6_AtMostOneCommitsKey ==
    \A i \in 1..Len(hist), j \in 1..Len(hist) :
        i < j => Keys(hist[i].added) \cap Keys(hist[j].added) = {}

\* ledger rows that came from a placement
PlacementRows(rows) == {r \in rows : r.placement_id # <<>>}

\* C8: a row with a placement id has the key perm:<id> or contract:<id>, the
\* ledger holds one row per placement id, and a sync adds no row for a
\* placement id the ledger already held
C8_PlacementKey ==
    /\ \A r \in PlacementRows(ledger) :
          r.unique_key \in {T_perm \o <<":">> \o r.placement_id,
                            T_contract \o <<":">> \o r.placement_id}
    /\ \A r1 \in PlacementRows(ledger), r2 \in PlacementRows(ledger) :
          r1.placement_id = r2.placement_id => r1 = r2
    /\ \A i \in 1..Len(hist) :
          \A r \in PlacementRows(hist[i].added) :
              r.placement_id \notin {b.placement_id : b \in hist[i].before}

\* C8 case: a sync returned a placement the ledger held, with another fee,
\* date, client and employee, and committed
C8_Witness ==
    \E i \in 1..Len(hist) :
        /\ hist[i].kind = "sync" /\ hist[i].success
        /\ \E x \in hist[i].hits :
              /\ x.placement_id # <<>>
              /\ \E b \in hist[i].before :
                    /\ b.placement_id = x.placement_id
                    /\ b.gp # x.gp /\ b.month # x.month
                    /\ b.client # x.client /\ b.employee_name # x.employee_name

\* the seven fields of the composite key
KeyFields == {"year", "month", "day", "employee_name", "client", "status", "gp"}

\* the fields in which two facts differ
Differing(a, b) == {f \in KeyFields : a[f] # b[f]}

\* the text fields of the fact hold no bar
BarFree(a) ==
    \A f \in {"month", "employee_name", "client", "status"} :
        \A i \in 1..Len(a[f]) : a[f][i] # "|"

\* two amounts that print alike with two decimals: the same cents, and the
\* same sign when the cents are zero
PrintAlike(x, y) == Round2(x) = Round2(y) /\ (Round2(x) = 0 => (x < 0) = (y < 0))

\* C7 as stated: facts without placement id that agree in the seven fields
\* get equal keys, and facts that differ in any of them get different keys
C7_KeyInjective ==
    probe.done => ((probe.key_a = probe.key_b) <=> Differing(probe.a, probe.b) = {})

\* C7 amended: facts that agree in the seven fields get equal keys; facts
\* that differ only in gross profit get different keys exactly when the two
\* amounts differ once rounded to cents; facts that differ in one other field
\* get different keys; facts that differ in several fields get different keys
\* as long as their text fields hold no bar
C7_KeyInjectiveUpToCents ==
    probe.done =>
        /\ Differing(probe.a, probe.b) = {} => probe.key_a = probe.key_b
        /\ Differing(probe.a, probe.b) = {"gp"} =>
              ((probe.key_a = probe.key_b) <=> PrintAlike(probe.a.gp, probe.b.gp))
        /\ (Cardinality(Differing(probe.a, probe.b)) = 1
                /\ Differing(probe.a, probe.b) # {"gp"}) => probe.key_a # probe.key_b
        /\ (BarFree(probe.a) /\ BarFree(probe.b)
                /\ Differing(probe.a, probe.b) \ {"gp"} # {}) => probe.key_a # probe.key_b

\* C7 case: the keys of two facts that differ in the day alone were computed
C7_Witness ==
    probe.done /\ Differing(probe.a, probe.b) = {"day"} /\ probe.key_a # probe.key_b

\* the provided rate as lines 290-299 read it
ParsedRate(c) == ProvidedRate(Strip(PyStr(c)))

\* a status that contains "enterprise" in any letter case
Enterprise(status) ==
    status.t = "str" /\ \E i \in 1..Len(status.s) :
        i + 9 <= Len(status.s) /\ Lower(SubSeq(status.s, i, i + 9)) = T_enterprise

\* C9: a provided rate that parses gives the result whatever the status;
\* without one, or with one that does not parse, a status containing
\* "enterprise" gives 0.0975 and any other status 0.10
C9_RatePrecedence ==
    probe.done =>
        IF probe.provided_rate.t # "none" /\ ParsedRate(probe.provided_rate).ok
        THEN probe.rf = ParsedRate(probe.provided_rate).rf
        ELSE IF Enterprise(probe.status) THEN probe.rf = 97500 /\ probe.str = T_Rate975
        ELSE probe.rf = 100000 /\ probe.str = T_Rate1000

\* C10 as stated: a bare rate above 1 is read as percentage points, and the
\* bare rate 1.0 resolves to 0.01, printed "1.00%"
C10_BoundaryIsOnePercent ==
    (probe.done /\ probe.provided_rate.t = "num") =>
        /\ probe.provided_rate.v > Scale => probe.rf * 100 = AsRate(probe.provided_rate.v)
        /\ probe.provided_rate.v = Scale =>
              probe.rf = RateScale \div 100 /\ probe.str = <<"1", ".", "0", "0", "%">>

\* C10 amended: a bare rate above 1 is read as percentage points (9.75
\* resolves to 0.0975); the bare rate 1.0 is not above 1 and stays 1.0,
\* printed "100.00%"; so does every bare rate between 0 and 1
C10_BoundaryIsHundredPercent ==
    (probe.done /\ probe.provided_rate.t = "num") =>
        /\ probe.provided_rate.v > Scale => probe.rf * 100 = AsRate(probe.provided_rate.v)
        /\ probe.provided_rate.v = 97500 => probe.rf = 97500 /\ probe.str = T_Rate975
        /\ probe.provided_rate.v = Scale =>
              probe.rf = RateScale /\ probe.str = <<"1", "0", "0", ".", "0", "0", "%">>
        /\ (0 < probe.provided_rate.v /\ probe.provided_rate.v < Scale) =>
              probe.rf = AsRate(probe.provided_rate.v)

\* C10 case: the bare rate 1.0 was resolved
C10_Witness ==
    probe.done /\ probe.provided_rate = Num(Scale) /\ probe.rf = RateScale

(***************************************************************************)
(* Rate string and rate float                                               *)
(***************************************************************************)
\* digits, a point, two digits and "%", with an optional leading minus
TwoDecimalPercent(s) ==
    /\ Len(s) >= 5
    /\ s[Len(s)] = "%"
    /\ IsDigit(s[Len(s) - 1]) /\ IsDigit(s[Len(s) - 2])
    /\ s[Len(s) - 3] = "."
    /\ \A i \in 1..(Len(s) - 4) : IsDigit(s[i]) \/ (i = 1 /\ s[i] = "-" /\ Len(s) > 5)

\* the number a rate string prints, as a fixed-point value
PercentOf(s) == ParseFloat(RStripPct(s)).val

\* the rate float times 100, as a fixed-point value
TimesHundred(rf) == (rf * 100) \div (RateScale \div Scale)

\* C11: whatever the status and the provided rate, the rate string is the
\* rate float times 100 printed with exactly two decimals and a "%"
C11_RateStringMatchesFloat ==
    probe.done =>
        /\ TwoDecimalPercent(probe.str)
        /\ PercentOf(probe.str) = Round2(TimesHundred(probe.rf))

\* C11 case: a provided rate with three decimals was resolved and printed
\* with two
C11_Witness ==
    /\ probe.done /\ probe.provided_rate = Str(<<"1", "2", ".", "3", "4", "4", "%">>)
    /\ probe.rf = 123440 /\ probe.str = <<"1", "2", ".", "3", "4", "%">>

(***************************************************************************)
(* The facts of the three producers                                         *)
(***************************************************************************)
\* the ledger rows a finished producer call leads to: the object of
\* upload_file, or the rows sync_bullhorn_data makes of the fetched records
ProducedRows ==
    IF ~probe.done THEN {}
    ELSE IF probe.op = "upload" THEN (IF probe.out.accept THEN {probe.out.row} ELSE {})
    ELSE IF probe.op \in {"placements", "timesheets"}
         THEN {SyncFact(probe.out[i], CurrentYear) : i \in 1..Len(probe.out)}
    ELSE {}

\* the rate a row's commission_rate string stands for, as a rate float
RowRate(r) == Div100(PercentOf(r.commission_rate))

\* C12: every row written by upload, placement sync or timesheet sync has
\* commission = round(gp * rate, 2), rate being the percentage of the row's
\* commission_rate string.  (For the timesheet row of 8.45 the right-hand
\* side is the tie 0.845, which the program's floats round to 0.84 as well.)
C12_CommissionFromStoredRate ==
    \A r \in ProducedRows : r.commission = MulRate2(r.gp, RowRate(r))

\* C13: a row with a non-negative gross profit has a non-negative commission,
\* and a row with a negative gross profit is produced, with a commission that
\* is not positive
C13_CommissionSignFollowsGp ==
    /\ \A r \in ProducedRows :
          /\ r.gp >= 0 => r.commission >= 0
          /\ r.gp < 0 => r.commission <= 0
    /\ (probe.done /\ probe.op = "upload" /\ probe.arg[1] = Str(N_Ajax)
            /\ probe.arg[2] = Num(-10 * Scale) /\ probe.arg[3] = Str(N_PamHenard))
          => probe.out.accept /\ probe.out.row.gp = -10 * Scale

(***************************************************************************)
(* Field matcher                                                            *)
(***************************************************************************)
\* the text holds a character that is not white space
NonBlank(s) == \E i \in 1..Len(s) : s[i] \notin {" ", "\t", "\n", "\r"}

\* the row has the alias with a value that is neither not-available nor blank
Qualifies(row_map, key) ==
    /\ key \in DOMAIN row_map
    /\ row_map[key].t \notin {"nan", "none"}
    /\ row_map[key].t = "str" => NonBlank(row_map[key].s)

\* the first alias of the list that qualifies, 0 when none does
FirstQualifying(row_map, candidates) ==
    IF \E i \in 1..Len(candidates) : Qualifies(row_map, candidates[i])
    THEN CHOOSE i \in 1..Len(candidates) :
            /\ Qualifies(row_map, candidates[i])
            /\ \A j \in 1..(i - 1) : ~Qualifies(row_map, candidates[j])
    ELSE 0

\* C14: the matcher returns the value, as the row holds it, of the first
\* alias in list order that the row has with a value that is not blank and
\* not not-available, passing over earlier aliases that are absent, blank or
\* not-available; it returns None when no alias qualifies; the row is an
\* argument it only reads
C14_FirstQualifyingAlias ==
    (probe.done /\ probe.op = "match") =>
        IF FirstQualifying(probe.arg, CLIENT_COLS) = 0 THEN probe.out = NoneV
        ELSE probe.out = probe.arg[CLIENT_COLS[FirstQualifying(probe.arg, CLIENT_COLS)]]

\* C14 case: the first alias is blank, the third not-available, and the
\* fourth is returned with its surrounding blanks
C14_Witness ==
    /\ probe.done /\ probe.op = "match"
    /\ DOMAIN probe.arg = {<<"c", "l", "i", "e", "n", "t">>, <<"c", "u", "s", "t", "o", "m", "e", "r">>, <<"c", "o", "m", "p", "a", "n", "y">>}
    /\ probe.arg[<<"c", "l", "i", "e", "n", "t">>] = Str(<<" ", " ">>) /\ probe.arg[<<"c", "u", "s", "t", "o", "m", "e", "r">>] = NaNV
    /\ probe.out = Str(<<" ", "T", "e", "c", "h", "C", "o", "r", "p", " ">>)

(***************************************************************************)
(* Date normalizer                                                          *)
(***************************************************************************)
\* C15: a number strictly between 20000 and 60000 is read as a spreadsheet
\* serial, 1899-12-30 plus that many days (44000 is 18 June 2020); for any
\* other number the result is absent
C15_SerialOnlyInRange ==
    (probe.done /\ probe.op = "date" /\ probe.arg.t = "num") =>
        IF 20000 * Scale < probe.arg.v /\ probe.arg.v < 60000 * Scale
        THEN /\ probe.out = CivilFromDays(SerialEpoch + probe.arg.v \div Scale)
             /\ probe.arg.v = 44000 * Scale => probe.out = [y |-> 2020, m |-> 6, d |-> 18]
        ELSE probe.out = NoDate

(***************************************************************************)
(* Skipped spreadsheet rows                                                 *)
(***************************************************************************)
\* row i of sheet k as the loop of upload_file sees it
SheetRow(k, i) == RowMap(Sheets[k].cols, Sheets[k].rows[i])

\* client, employee name or a numeric gross profit cannot be resolved
Unresolved(row_map) ==
    \/ ~Truthy(first_match(row_map, CLIENT_COLS))
    \/ ~Truthy(first_match(row_map, EMP_COLS))
    \/ to_numeric(first_match(row_map, GP_COLS)).t # "num"

\* per sheet, the rows that cannot be resolved
UnresolvedRows ==
    [k \in 1..Len(Sheets) |->
        {i \in 1..Len(Sheets[k].rows) : Unresolved(SheetRow(k, i))}]

\* C16: a spreadsheet row without client, employee name or numeric gross
\* profit is not a candidate and adds no ledger row; the upload still
\* succeeds when nothing else goes wrong, and every other row of the sheet
\* is in the ledger afterwards
C16_UnresolvedRowSkipped ==
    \A n \in 1..Len(hist) :
        hist[n].kind = "upload" =>
            /\ faults = 0 => hist[n].success
            /\ \A i \in 1..Len(Sheets[hist[n].inp].rows) :
                  IF i \in UnresolvedRows[hist[n].inp]
                  THEN i \notin Applied(hist[n])
                  ELSE i \in Applied(hist[n])
                       /\ (hist[n].success =>
                              AppliedRow(hist[n], i).unique_key \in Keys(hist[n].after))
            /\ \A r \in hist[n].added :
                  \E i \in Applied(hist[n]) : Fact(r) = AppliedRow(hist[n], i)

\* C16 case: a sheet whose first row has no client was uploaded and its
\* second row was added
C16_Witness ==
    \E n \in 1..Len(hist) :
        /\ hist[n].kind = "upload" /\ hist[n].success
        /\ 1 \in UnresolvedRows[hist[n].inp]
        /\ \E r \in hist[n].added : Fact(r) = AppliedRow(hist[n], 2)

(***************************************************************************)
(* Accepted spreadsheet rows                                                *)
(***************************************************************************)
\* the cells of the probed row
ClientCell == probe.arg[1]
GpCell == probe.arg[2]
HoursCell == probe.arg[4]
StatusCell == probe.arg[5]
RateCell == probe.arg[6]
DateCell == probe.arg[7]

\* an upload row was processed and accepted
Accepted == probe.done /\ probe.op = "upload" /\ probe.out.accept

\* the hours of the row: its hours value when that is a number above 0, as a
\* number or as a numeric text, and 40 otherwise
HoursUsed ==
    IF HoursCell.t = "num" /\ HoursCell.v > 0 THEN HoursCell.v
    ELSE IF HoursCell.t = "str" /\ ParseFloat(HoursCell.s).ok /\ ParseFloat(HoursCell.s).val > 0
         THEN ParseFloat(HoursCell.s).val
    ELSE 40 * Scale

\* C17: an accepted row has hourly_gp = round(gp / hours, 2), hours being the
\* row's hours when numeric and above 0 and 40 in every other case (no hours,
\* not a number, zero, negative), so that no row divides by zero
C17_HourlyGpWithFallback ==
    Accepted => probe.out.row.hourly_gp = DivRound2(probe.out.row.gp, HoursUsed)

\* C17 case: a row with hours "N/A" or hours 0 and gross profit 336.96 has
\* hourly_gp 8.42
C17_Witness ==
    /\ Accepted /\ GpCell = Str(<<"3", "3", "6", ".", "9", "6">>) /\ HoursCell \in {Str(<<"N", "/", "A">>), Num(0)}
    /\ probe.out.row.hourly_gp = 84200

\* the row has no recoverable date, no hours, no rate and a status that is
\* absent or "New"
PlainRow ==
    /\ Accepted
    /\ DateCell \in {NaNV, Str(<<"s", "o", "o", "n">>)} /\ HoursCell = NaNV /\ RateCell = NaNV
    /\ StatusCell \in {NaNV, Str(T_New)}

\* C18: a row without recoverable date, hours and rate and with a status
\* that is not an enterprise one is attributed to "Current", day 1 of the
\* current year, at "10.00%", with hourly_gp = gp / 40 and commission =
\* round(gp * 0.10, 2) (8.42 and 33.70 for 336.96), and its dedup key is made
\* of these default date values
C18_DefaultsOfPlainRow ==
    PlainRow =>
        /\ probe.out.row.month = T_Current
        /\ probe.out.row.day = 1
        /\ probe.out.row.year = CurrentYear
        /\ probe.out.row.commission_rate = <<"1", "0", ".", "0", "0", "%">>
        /\ probe.out.row.hourly_gp = DivRound2(probe.out.row.gp, 40 * Scale)
        /\ probe.out.row.commission = MulRound2(probe.out.row.gp, Scale \div 10)
        /\ GpCell = Str(<<"3", "3", "6", ".", "9", "6">>) =>
              /\ probe.out.row.gp = 3369600
              /\ probe.out.row.hourly_gp = 84200
              /\ probe.out.row.commission = 337000
        /\ probe.out.row.unique_key =
              IntStr(CurrentYear) \o <<"|", "C", "u", "r", "r", "e", "n", "t", "|", "1", "|">> \o probe.out.row.employee_name
              \o <<"|">> \o probe.out.row.client \o <<"|">> \o probe.out.row.status
              \o <<"|">> \o Fixed2(probe.out.row.gp)

\* C18 case: the scenario row (Ajax, 336.96, Pam Henard, New) was processed
C18_Witness ==
    /\ PlainRow /\ GpCell = Str(<<"3", "3", "6", ".", "9", "6">>) /\ StatusCell = Str(T_New)
    /\ DateCell = Str(<<"s", "o", "o", "n">>)
    /\ probe.out.row.unique_key = <<"2", "0", "2", "5", "|", "C", "u", "r", "r", "e", "n", "t", "|", "1", "|", "P", "a", "m", " ", "H", "e", "n", "a", "r", "d", "|", "A", "j", "a", "x", "|", "N", "e", "w", "|", "3", "3", "6", ".", "9", "6">>

(***************************************************************************)
(* ATS formatter                                                            *)
(***************************************************************************)
\* the placement is flagged "internal", in any letter case
FlaggedInternal(p) ==
    /\ Len(p.correlatedCustomText2) = Len(T_internal)
    /\ \A i \in 1..Len(T_internal) : LowerChar(p.correlatedCustomText2[i]) = T_internal[i]

\* the placement is to be emitted
Emitted(p) == ~FlaggedInternal(p) /\ (p.customText38 # <<>> \/ p.customText34 # <<>>)

\* a formatter call has returned
Formatted == probe.done /\ probe.op = "placements"

\* C19: the formatter emits one fact for each placement that is not flagged
\* internal and has a sales owner or a recruiter, and none for the others,
\* in input order; the employee is the sales owner when there is one and the
\* recruiter otherwise
C19_EmitsUnflaggedWithEmployee ==
    Formatted =>
        /\ Len(probe.out) = Len(SelectSeq(probe.arg, Emitted))
        /\ \A i \in 1..Len(probe.out) :
              /\ probe.out[i].placement_id = SelectSeq(probe.arg, Emitted)[i].id
              /\ probe.out[i].employee_name =
                    IF SelectSeq(probe.arg, Emitted)[i].customText38 # <<>>
                    THEN SelectSeq(probe.arg, Emitted)[i].customText38
                    ELSE SelectSeq(probe.arg, Emitted)[i].customText34

\* C19 case: of an internal placement and one with recruiter and sales owner
\* the second alone is emitted, for the sales owner
C19_Witness ==
    /\ Formatted /\ Len(probe.arg) = 2 /\ Len(probe.out) = 1
    /\ probe.arg[1].correlatedCustomText2 = <<"I", "n", "t", "e", "r", "n", "a", "l">>
    /\ probe.arg[2].customText34 = N_PamHenard
    /\ probe.out[1].employee_name = N_SarahJohnson

\* C20: every emitted fact has status "Permanent", the flat fee as gross
\* profit, the rate "10.00%" whatever the texts of the placement, commission
\* round(flat_fee * 0.10, 2), hourly_gp 0 and the month, day and year of the
\* begin date (placement 101: 10 March 2025), or "Unknown", 1 and the current
\* year when the begin date is missing or unreadable
C20_PermanentFactFields ==
    Formatted =>
        \A i \in 1..Len(probe.out) :
            /\ probe.out[i].status = <<"P", "e", "r", "m", "a", "n", "e", "n", "t">>
            /\ probe.out[i].gp = SelectSeq(probe.arg, Emitted)[i].flatFee
            /\ probe.out[i].commission_rate = <<"1", "0", ".", "0", "0", "%">>
            /\ probe.out[i].commission =
                  MulRate2(SelectSeq(probe.arg, Emitted)[i].flatFee, RateScale \div 10)
            /\ probe.out[i].hourly_gp = 0
            /\ IF SelectSeq(probe.arg, Emitted)[i].dateBegin \in {0, -1}
               THEN /\ probe.out[i].month = <<"U", "n", "k", "n", "o", "w", "n">> /\ probe.out[i].day = 1
                    /\ probe.out[i].year = CurrentYear
               ELSE [y |-> probe.out[i].year, m |-> probe.out[i].month,
                     d |-> probe.out[i].day]
                    = [y |-> CivilFromDays(SelectSeq(probe.arg, Emitted)[i].dateBegin
                                           \div 86400).y,
                       m |-> MonthNames[CivilFromDays(
                                SelectSeq(probe.arg, Emitted)[i].dateBegin \div 86400).m],
                       d |-> CivilFromDays(SelectSeq(probe.arg, Emitted)[i].dateBegin
                                           \div 86400).d]
            /\ probe.out[i].placement_id = 101 /\ probe.out[i].gp = 5000 * Scale =>
                  /\ probe.out[i].month = <<"M", "a", "r", "c", "h">> /\ probe.out[i].day = 10
                  /\ probe.out[i].year = 2025 /\ probe.out[i].commission = 500 * Scale

\* C20 case: a placement whose marker reads "Enterprise" and one with an
\* unreadable begin date were formatted
C20_Witness ==
    /\ Formatted /\ Len(probe.out) = 2
    /\ probe.arg[1].correlatedCustomText2 = <<"E", "n", "t", "e", "r", "p", "r", "i", "s", "e">>
    /\ probe.out[1].commission_rate = <<"1", "0", ".", "0", "0", "%">> /\ probe.out[1].commission = 123500
    /\ probe.arg[2].dateBegin = -1 /\ probe.out[2].month = <<"U", "n", "k", "n", "o", "w", "n">>

(***************************************************************************)
(* Timesheet aggregator                                                     *)
(***************************************************************************)
\* an aggregation of time entries has returned
Aggregated == probe.done /\ probe.op = "timesheets"

\* the accepted entries of the argument, by position
AcceptedAt == {i \in 1..Len(probe.arg) : EntryParsed(probe.arg[i]).ok}

\* the group of the entry at position i
GroupOf(i) ==
    [employee_name |-> EntryParsed(probe.arg[i]).employee_name,
     client |-> EntryParsed(probe.arg[i]).client,
     month |-> EntryParsed(probe.arg[i]).month,
     year |-> EntryParsed(probe.arg[i]).year,
     employment_type |-> EntryParsed(probe.arg[i]).employment_type]

\* hours, bill and pay of the accepted entries of group g, up to position n
RECURSIVE GroupSum(_, _)
GroupSum(g, n) ==
    IF n = 0 THEN [hours |-> 0, bill |-> 0, pay |-> 0]
    ELSE IF n \in AcceptedAt /\ GroupOf(n) = g
         THEN [hours |-> GroupSum(g, n - 1).hours + EntryParsed(probe.arg[n]).hours,
               bill |-> GroupSum(g, n - 1).bill + EntryParsed(probe.arg[n]).bill,
               pay |-> GroupSum(g, n - 1).pay + EntryParsed(probe.arg[n]).pay]
         ELSE GroupSum(g, n - 1)

\* the fact of group g, amounts to the cent
FactOfGroup(g, f) ==
    /\ f.employee_name = g.employee_name /\ f.client = g.client
    /\ f.month = g.month /\ f.year = g.year /\ f.day = 1
    /\ f.status = <<"C", "o", "n", "t", "r", "a", "c", "t", " ", "(">> \o g.employment_type \o <<")">>
    /\ f.gp = Round2(GroupSum(g, Len(probe.arg)).bill - GroupSum(g, Len(probe.arg)).pay)
    /\ f.hourly_gp =
          IF GroupSum(g, Len(probe.arg)).hours > 0
          THEN DivRound2(GroupSum(g, Len(probe.arg)).bill - GroupSum(g, Len(probe.arg)).pay,
                         GroupSum(g, Len(probe.arg)).hours)
          ELSE 0
    /\ f.commission =
          MulRate2(GroupSum(g, Len(probe.arg)).bill - GroupSum(g, Len(probe.arg)).pay,
                   RateScale \div 10)

\* C21: the aggregator emits exactly one fact per distinct (employee, client,
\* month, year, employment type) among the accepted entries, with gross
\* profit = sum of bill - sum of pay of that group's entries (not clamped),
\* hourly gross profit = gross profit / total hours when the hours are
\* positive and 0 otherwise, commission 10% of the gross profit, status
\* "Contract (<employment type>)" and day 1
C21_OneFactPerGroup ==
    Aggregated =>
        /\ Len(probe.out) = Cardinality({GroupOf(i) : i \in AcceptedAt})
        /\ \A g \in {GroupOf(i) : i \in AcceptedAt} :
              \E k \in 1..Len(probe.out) : FactOfGroup(g, probe.out[k])

\* the same for entries whose texts do not hold the separator of the group key
C21_OneFactPerGroupWithoutBar ==
    (/\ Aggregated
     /\ \A i \in 1..Len(probe.arg) :
           \A c \in 1..Len(probe.arg[i].placement.clientName) :
               probe.arg[i].placement.clientName[c] # "|")
    => C21_OneFactPerGroup

\* a date, an employee and numeric amounts can be read from the entry
Wellformed(e) ==
    /\ EntryDate(e) # NoDate
    /\ e.placement.correlatedCustomText38 # <<>> \/ e.placement.correlatedCustomText34 # <<>>
       \/ e.ownerName # <<>>
    /\ \A c \in {e.hours, e.billAmount, e.payAmount} : c.t = "str" => ParseFloat(c.s).ok

\* C22: an entry without a resolvable date, without a resolvable employee or
\* with a malformed amount is skipped: the facts are those of the other
\* entries alone, the same as if the entry had not been there
C22_MalformedEntrySkipped ==
    Aggregated =>
        probe.out = GroupFacts(Aggregate(<<>>, SelectSeq(probe.arg, Wellformed)))

\* C22 case: an entry with a pay amount that is no number stands between two
\* entries of one group, which are both aggregated: 600 - 420 = 180.00
C22_Witness ==
    /\ Aggregated /\ Len(probe.arg) = 3 /\ probe.arg[1] = E1 /\ probe.arg[3] = E2
    /\ probe.arg[2].payAmount = Str(<<"n", "/", "a">>) /\ probe.arg[2].hours = Num(8 * Scale)
    /\ Len(probe.out) = 1 /\ probe.out[1].gp = 180 * Scale
    /\ probe.out[1].hourly_gp = 37500

(***************************************************************************)
(* Timesheet fetch                                                          *)
(***************************************************************************)
\* a fetch has returned
Fetched == probe.op = "fetch" /\ probe.done

\* C23: a fetch that ended on a 401 or 403 of the back office is never turned
\* into an empty list of rows, the result of a fetch that found no data
C23_AuthFailureNotEmptyResult == Fetched /\ probe.failed = "auth" => probe.out # <<>>

\* C24: a fetch that ended on a failure other than an authentication failure,
\* on the first page or a later one, returns no rows
C24_FailedWindowIsEmpty ==
    Fetched /\ probe.failed \in {"503", "404", "other"} => probe.out = <<>>

\* C25: after a 401 or 403 answer the fetch makes no further request
C25_AuthFailureEndsFetch ==
    [][probe.op = "fetch" /\ probe.last_error \in {"401", "403"}
       => probe'.requests = probe.requests]_vars

\* C29: every continuation requests a page number strictly greater than the
\* one before, and no page is added to the group sums twice
C29_PagesStrictlyIncrease ==
    probe.op = "fetch" =>
        /\ probe.prev < probe.page
        /\ \A i, j \in 1..Len(probe.added) : i < j => probe.added[i] < probe.added[j]

(***************************************************************************)
(* Sync: failed sources, employee link, contract facts                      *)
(***************************************************************************)
\* what the caller of a sync receives
Response(h) ==
    [success |-> h.success, processed |-> h.processed, total_fetched |-> h.total_fetched,
     warnings |-> h.warnings, error |-> h.error]

\* the finished sync calls, by position in hist
SyncCalls == {i \in 1..Len(hist) : hist[i].kind = "sync"}

\* C26: a sync in which one source failed and the other answered, and which
\* the storage layer did not fail, reports success with a warning attached
C26_FailedSourceWarned ==
    \A i \in SyncCalls :
        Syncs[hist[i].inp].ats # Syncs[hist[i].inp].bbo /\ hist[i].error # "Sync error"
        => hist[i].success /\ hist[i].warnings # <<>>

\* C27: the response of a sync in which every source answered and every
\* fetched fact was already in the ledger differs from the response of a sync
\* in which a source failed
C27_FailureTellsApart ==
    \A i \in SyncCalls, j \in SyncCalls :
        /\ Syncs[hist[i].inp].ats /\ Syncs[hist[i].inp].bbo
        /\ hist[i].success /\ hist[i].processed = 0
        /\ ~(Syncs[hist[j].inp].ats /\ Syncs[hist[j].inp].bbo)
        => Response(hist[i]) # Response(hist[j])

\* the roster entries whose name equals name ignoring letter case
Namesakes(name) == {i \in 1..Len(Roster) : Lower(Roster[i].name) = Lower(name)}

\* C28: every row a call wrote carries the id of the roster entry whose name
\* equals its employee_name ignoring letter case, and no id when there is none
C28_EmployeeLinkIgnoresCase ==
    \A i \in 1..Len(hist) :
        \A r \in hist[i].added :
            IF Namesakes(r.employee_name) = {} THEN r.employee_id = 0
            ELSE \E n \in Namesakes(r.employee_name) : r.employee_id = Roster[n].id

\* C30: the ledger holds at most one contract fact per (employee, client,
\* month, year, employment type)
C30_OneContractFactPerGroup ==
    \A r1 \in ledger, r2 \in ledger :
        /\ r1.placement_id = <<>> /\ r2.placement_id = <<>>
        /\ StartsWith(r1.status, <<"C", "o", "n", "t", "r", "a", "c", "t", " ", "(">>) /\ r1.status = r2.status
        /\ r1.employee_name = r2.employee_name /\ r1.client = r2.client
        /\ r1.month = r2.month /\ r1.year = r2.year
        => r1 = r2

====
